---- MODULE Spec2Model ----
(***************************************************************************)
(* Model of the Limit strategy of src/strategy/limit.rs: a list of         *)
(* LimitPosition values, each with a buying Range, a selling Range, an     *)
(* investment, a Mutex<Option<Quantity>> holding and two atomic counters,  *)
(* driven by Limit::trap with three injected asynchronous operations       *)
(* (price, buy, sell).                                                     *)
(*                                                                         *)
(* Decimal values are modelled by integers: the Limit code only compares   *)
(* them and copies them.  Option<T> is modelled by a sequence of length 0  *)
(* (None) or 1 (Some(v)).                                                  *)
(***************************************************************************)
EXTENDS Integers, Sequences, FiniteSets, TLC

(***************************************************************************)
(* Bounds of the model.                                                    *)
(***************************************************************************)
NumPositions == 2
MaxPrice == 3
MaxQty == 2
MaxTrades == 3
NumTasks == 2

Prices == 0..MaxPrice
Quantities == 0..MaxQty
Indexes == 1..NumPositions

\* The upstream errors an injected operation can fail with.
Errors == {"timeout", "rejected"}

(***************************************************************************)
(* Option<T> and Result<T, E>.                                             *)
(***************************************************************************)
None == <<>>
Some(v) == <<v>>

Ok(v) == <<"Ok", v>>
Err(e) == <<"Err", e>>
IsOk(r) == r[1] = "Ok"

(***************************************************************************)
(* Range (src/strategy/mod.rs): a pair stored in either order.             *)
(***************************************************************************)
high(r) == IF r[1] > r[2] THEN r[1] ELSE r[2]

low(r) == IF r[1] < r[2] THEN r[1] ELSE r[2]

is_within_inclusive(r, value) == value >= low(r) /\ value <= high(r)

(***************************************************************************)
(* LimitPosition (src/strategy/limit.rs).                                  *)
(***************************************************************************)
LimitPosition_new(investment, buying, selling, position) ==
    [investment |-> investment,
     buying |-> buying,
     buying_count |-> 0,
     selling |-> selling,
     selling_count |-> 0,
     position |-> position]

\* A mutant of predictive_buying: the holding is not consulted.
predictive_buying_ignores_position(lp, price) ==
    IF is_within_inclusive(lp.buying, price)
    THEN Some(lp.investment)
    ELSE None

\* A mutant of predictive_buying: the upper end of the range is excluded.
predictive_buying_exclusive(lp, price) ==
    IF price >= low(lp.buying) /\ price < high(lp.buying)
    THEN IF lp.position # None
         THEN IF lp.position[1] = 0 THEN Some(lp.investment) ELSE None
         ELSE Some(lp.investment)
    ELSE None

predictive_buying(lp, price) ==
    IF is_within_inclusive(lp.buying, price)
    THEN IF lp.position # None
         THEN IF lp.position[1] = 0 THEN Some(lp.investment) ELSE None
         ELSE Some(lp.investment)
    ELSE None

\* A mutant of predictive_selling: a zero holding is offered for sale.
predictive_selling_sells_zero(lp, price) ==
    IF is_within_inclusive(lp.selling, price) /\ lp.position # None
    THEN Some(lp.position[1])
    ELSE None

\* A mutant of predictive_selling: the lower end of the range is excluded.
predictive_selling_exclusive(lp, price) ==
    IF price > low(lp.selling) /\ price <= high(lp.selling) /\ lp.position # None
    THEN IF lp.position[1] = 0 THEN None ELSE Some(lp.position[1])
    ELSE None

predictive_selling(lp, price) ==
    IF is_within_inclusive(lp.selling, price) /\ lp.position # None
    THEN IF lp.position[1] = 0 THEN None ELSE Some(lp.position[1])
    ELSE None

\* A mutant of update_position: the holding is left as it was.
update_position_keeps(lp, position) == lp

update_position(lp, position) == [lp EXCEPT !.position = position]

\* A mutant of fetch_add_buying_count: the buy is not counted.
fetch_add_buying_count_lost(lp, val) == lp

fetch_add_buying_count(lp, val) ==
    [lp EXCEPT !.buying_count = lp.buying_count + val]

\* A mutant of fetch_add_selling_count: the sell is not counted.
fetch_add_selling_count_lost(lp, val) == lp

fetch_add_selling_count(lp, val) ==
    [lp EXCEPT !.selling_count = lp.selling_count + val]

(***************************************************************************)
(* Limit::trap, run without interleaving.                                  *)
(*                                                                         *)
(* An event records one call of an injected operation: the operation, the  *)
(* position it is issued for (0 for the price fetch), the price and the    *)
(* amount or quantity passed, the holding of the position when the call    *)
(* was issued, and the Result the operation returned.                      *)
(***************************************************************************)
price_event(ret) ==
    [op |-> "price", pos |-> 0, price |-> 0, arg |-> 0, held |-> None, ret |-> ret]

sell_event(i, price, quantity, held, ret) ==
    [op |-> "sell", pos |-> i, price |-> price, arg |-> quantity, held |-> held, ret |-> ret]

buy_event(i, price, amount, held, ret) ==
    [op |-> "buy", pos |-> i, price |-> price, arg |-> amount, held |-> held, ret |-> ret]

\* A mutant of trap_position: the `continue` after a sell is missing, so the
\* position that just sold is offered for buying in the same iteration.
trap_position_without_continue(lp, i, price, outcome) ==
    LET quantity == predictive_selling(lp, price)
        sold == IF quantity # None /\ IsOk(outcome)
                THEN fetch_add_selling_count(update_position(lp, None), 1)
                ELSE lp
        amount == predictive_buying(sold, price)
        sells == IF quantity # None
                 THEN <<sell_event(i, price, quantity[1], lp.position, outcome)>>
                 ELSE <<>>
    IN  IF quantity # None /\ ~IsOk(outcome)
        THEN [events |-> sells, ret |-> outcome, lp |-> lp]
        ELSE IF amount # None
        THEN [events |-> sells \o <<buy_event(i, price, amount[1], sold.position, outcome)>>,
              ret |-> IF IsOk(outcome) THEN Ok(0) ELSE outcome,
              lp |-> IF IsOk(outcome)
                     THEN fetch_add_buying_count(update_position(sold, Some(outcome[2])), 1)
                     ELSE sold]
        ELSE [events |-> sells, ret |-> Ok(0), lp |-> sold]

\* One iteration of the loop of trap (lines 130-146) for position i, where
\* outcome is the Result of the exchange call the iteration issues, if any.
\* ret is Err(e) when the `?` operator returns from trap.
trap_position(lp, i, price, outcome) ==
    LET quantity == predictive_selling(lp, price)
        amount == predictive_buying(lp, price)
    IN  IF quantity # None
        THEN [events |-> <<sell_event(i, price, quantity[1], lp.position, outcome)>>,
              ret |-> IF IsOk(outcome) THEN Ok(0) ELSE outcome,
              lp |-> IF IsOk(outcome)
                     THEN fetch_add_selling_count(update_position(lp, None), 1)
                     ELSE lp]
        ELSE IF amount # None
        THEN [events |-> <<buy_event(i, price, amount[1], lp.position, outcome)>>,
              ret |-> IF IsOk(outcome) THEN Ok(0) ELSE outcome,
              lp |-> IF IsOk(outcome)
                     THEN fetch_add_buying_count(update_position(lp, Some(outcome[2])), 1)
                     ELSE lp]
        ELSE [events |-> <<>>, ret |-> Ok(0), lp |-> lp]

\* A mutant of trap_loop: the `?` after the exchange call is missing, so an
\* error is dropped and the loop goes on.
RECURSIVE trap_loop_without_question_mark(_, _, _, _, _)
trap_loop_without_question_mark(ps, i, price, oracle, events) ==
    IF i > Len(ps)
    THEN [positions |-> ps, events |-> events, ret |-> Ok(0)]
    ELSE LET r == trap_position(ps[i], i, price, oracle[i])
         IN  trap_loop_without_question_mark([ps EXCEPT ![i] = r.lp], i + 1, price,
                                             oracle, events \o r.events)

\* The loop of trap over the positions in reverse order.
RECURSIVE trap_loop_rev(_, _, _, _, _)
trap_loop_rev(ps, i, price, oracle, events) ==
    IF i < 1
    THEN [positions |-> ps, events |-> events, ret |-> Ok(0)]
    ELSE LET r == trap_position(ps[i], i, price, oracle[i])
         IN  IF IsOk(r.ret)
             THEN trap_loop_rev([ps EXCEPT ![i] = r.lp], i - 1, price, oracle,
                                events \o r.events)
             ELSE [positions |-> ps, events |-> events \o r.events, ret |-> r.ret]

RECURSIVE trap_loop(_, _, _, _, _)
trap_loop(ps, i, price, oracle, events) ==
    IF i > Len(ps)
    THEN [positions |-> ps, events |-> events, ret |-> Ok(0)]
    ELSE LET r == trap_position(ps[i], i, price, oracle[i])
         IN  IF IsOk(r.ret)
             THEN trap_loop([ps EXCEPT ![i] = r.lp], i + 1, price, oracle,
                            events \o r.events)
             ELSE [positions |-> ps, events |-> events \o r.events, ret |-> r.ret]

\* A mutant of trap: the positions are visited last to first.
trap_reversed(ps, price_ret, oracle) ==
    IF IsOk(price_ret)
    THEN trap_loop_rev(ps, Len(ps), price_ret[2], oracle, <<price_event(price_ret)>>)
    ELSE [positions |-> ps, events |-> <<price_event(price_ret)>>, ret |-> price_ret]

\* A mutant of trap: the price is fetched again for every position.
RECURSIVE trap_loop_refetch(_, _, _, _, _)
trap_loop_refetch(ps, i, price, oracle, events) ==
    IF i > Len(ps)
    THEN [positions |-> ps, events |-> events, ret |-> Ok(0)]
    ELSE LET r == trap_position(ps[i], i, price, oracle[i])
         IN  IF IsOk(r.ret)
             THEN trap_loop_refetch([ps EXCEPT ![i] = r.lp], i + 1, price, oracle,
                                    events \o <<price_event(Ok(price))>> \o r.events)
             ELSE [positions |-> ps,
                   events |-> events \o <<price_event(Ok(price))>> \o r.events,
                   ret |-> r.ret]

trap_refetches(ps, price_ret, oracle) ==
    IF IsOk(price_ret)
    THEN trap_loop_refetch(ps, 1, price_ret[2], oracle, <<>>)
    ELSE [positions |-> ps, events |-> <<price_event(price_ret)>>, ret |-> price_ret]

\* A mutant of trap: a failed price fetch is taken for the price 0.
trap_on_failed_price(ps, price_ret, oracle) ==
    trap_loop(ps, 1, IF IsOk(price_ret) THEN price_ret[2] ELSE 0, oracle,
              <<price_event(price_ret)>>)

\* trap(price, buy, sell) on the positions ps: price_ret is the Result of the
\* price operation and oracle[i] the Result of the exchange call issued for
\* position i, if one is issued.
trap(ps, price_ret, oracle) ==
    IF IsOk(price_ret)
    THEN trap_loop(ps, 1, price_ret[2], oracle, <<price_event(price_ret)>>)
    ELSE [positions |-> ps, events |-> <<price_event(price_ret)>>, ret |-> price_ret]

(***************************************************************************)
(* State.                                                                  *)
(***************************************************************************)
VARIABLES
    positions,  \* Limit.positions: the LimitPosition values, in declaration order
    tick,       \* the most recent trap call: its events and its return value
    bought,     \* per position, the quantity its most recent successful buy returned
    twin,       \* the positions of a second Limit, created flat the other way
    twin_tick,  \* the most recent trap call on the second Limit
    call,       \* the most recent direct call of a LimitPosition method
    tasks,      \* per task running trap concurrently: where it is in trap
    locks,      \* per position, the task holding LimitPosition.position (0: none)
    grid,       \* the Grid under study
    copies,     \* the copies argument that Grid was created with
    percentage, \* the Percentage under study
    treasurer,  \* the Prosperity ledger: its balance
    ticks,      \* the prices a strategy was driven with so far, and their trades
    range,      \* the Range under study
    client,     \* the SpotClient under study: its Spot and its option
    placed,     \* the orders that SpotClient has placed at the exchange
    transfers,  \* per task calling the ledger: its call and where it is in it
    mutex       \* the task holding Prosperity.balance (0: none)

vars == <<positions, tick, bought, twin, twin_tick, call, tasks, locks,
          grid, copies, percentage, treasurer, ticks,
          range, client, placed, transfers, mutex>>

\* The state of a Limit, and the state of the other strategies and the ledger.
limit == <<positions, tick, bought, twin, twin_tick, tasks, locks>>
exchange == <<range, client, placed, transfers, mutex>>
strategies == <<grid, copies, percentage, treasurer, ticks, exchange>>

\* No Range or SpotClient is under study and nothing calls the ledger.
no_exchange ==
    /\ range = None
    /\ client = None
    /\ placed = <<>>
    /\ transfers = <<>>
    /\ mutex = 0

\* No Grid, Percentage or ledger has been created.
no_strategies ==
    /\ no_exchange
    /\ grid = None
    /\ copies = 0
    /\ percentage = None
    /\ treasurer = None
    /\ ticks = <<>>

PriceResults == {Ok(p) : p \in Prices} \cup {Err(e) : e \in Errors}
Outcomes == {Ok(q) : q \in Quantities} \cup {Err(e) : e \in Errors}

\* The Limits the model is run on: position i buys in (i-1, i) stored in
\* reverse order and sells in (i, MaxPrice), so that the two ranges share the
\* price i, and every position may start with no holding, a zero holding or a
\* positive holding.
InitialHeld == {None, Some(0), Some(MaxQty)}

InitialPositions ==
    {[i \in Indexes |-> LimitPosition_new(i, <<i, i - 1>>, <<i, MaxPrice>>, h[i])] :
        h \in [Indexes -> InitialHeld]}

NoTick == [events |-> <<>>, ret |-> Ok(0)]

Tasks == 1..NumTasks

\* A task that is not inside trap.
Idle == [pc |-> "idle", price |-> 0, idx |-> 0, arg |-> 0]

NoCall == [op |-> "none", pos |-> 0, price |-> 0, ret |-> None]

\* The same position created with Some(0) in place of None, and None in place
\* of Some(0).
created_flat_the_other_way(lp) ==
    IF lp.position = None THEN update_position(lp, Some(0))
    ELSE IF lp.position = Some(0) THEN update_position(lp, None)
    ELSE lp

Init ==
    /\ positions \in InitialPositions
    /\ tick = NoTick
    /\ bought = [i \in Indexes |-> None]
    /\ twin = [i \in Indexes |-> created_flat_the_other_way(positions[i])]
    /\ twin_tick = NoTick
    /\ call = NoCall
    /\ tasks = [t \in Tasks |-> Idle]
    /\ locks = [i \in Indexes |-> 0]
    /\ no_strategies

\* The quantity returned by the successful buy of position i among events, if any.
last_bought(events, i, before) ==
    LET ok == {k \in 1..Len(events) :
                 events[k].op = "buy" /\ events[k].pos = i /\ IsOk(events[k].ret)}
    IN  IF ok = {} THEN before
        ELSE Some(events[CHOOSE k \in ok : \A j \in ok : j <= k].ret[2])

RECURSIVE trades(_, _)
trades(ps, i) ==
    IF i > Len(ps) THEN 0
    ELSE ps[i].buying_count + ps[i].selling_count + trades(ps, i + 1)

\* The Results the exchange can return for the call trap issues for lp at the
\* fetched price: any quantity or any error for a buy, an income (which trap
\* discards) or any error for a sell.  A position that issues no call consumes
\* no Result.
outcomes_for(lp, price_ret) ==
    IF ~IsOk(price_ret) THEN {Ok(0)}
    ELSE IF predictive_selling(lp, price_ret[2]) # None
    THEN {Ok(0)} \cup {Err(e) : e \in Errors}
    ELSE IF predictive_buying(lp, price_ret[2]) # None
    THEN Outcomes
    ELSE {Ok(0)}

\* The oracles of one trap call on ps[1..n]: one Result per position, up to
\* the first error (trap returns there, and the later positions consume none).
RECURSIVE oracles(_, _, _)
oracles(ps, price_ret, n) ==
    IF n = 0 THEN {<<>>}
    ELSE {Append(rest, o) :
            rest \in oracles(ps, price_ret, n - 1),
            o \in outcomes_for(ps[n], price_ret)} \ 
         {Append(rest, o) :
            rest \in {r \in oracles(ps, price_ret, n - 1) :
                        \E k \in 1..(n - 1) : ~IsOk(r[k])},
            o \in outcomes_for(ps[n], price_ret) \ {Ok(0)}}

\* One trap call, run to completion before the next one starts, on each of the
\* two Limits: both are fed the same price and the same exchange Results.  The
\* model stops trading once the positions have traded MaxTrades times in all.
Trap(price_ret, oracle) ==
    LET r == trap(positions, price_ret, oracle)
        t == trap(twin, price_ret, oracle)
    IN  /\ trades(r.positions, 1) <= MaxTrades
        /\ positions' = r.positions
        /\ tick' = [events |-> r.events, ret |-> r.ret]
        /\ bought' = [i \in Indexes |-> last_bought(r.events, i, bought[i])]
        /\ twin' = t.positions
        /\ twin_tick' = [events |-> t.events, ret |-> t.ret]
        /\ UNCHANGED <<call, tasks, locks, strategies>>

Next == \E price_ret \in PriceResults :
            \E oracle \in oracles(positions, price_ret, Len(positions)) \cup
                           oracles(twin, price_ret, Len(twin)) :
                Trap(price_ret, oracle)

Spec == Init /\ [][Next]_vars

(***************************************************************************)
(* Properties of sequential ticks.                                         *)
(***************************************************************************)
positive(position) == position # None /\ position[1] > 0
flat(position) == position = None \/ position = Some(0)

\* The exchange calls of a tick: its events but the first, the price fetch.
exchange_events(t) == {k \in 2..Len(t.events) : TRUE}
ticked(t) == t.events # <<>>
fetched(t) == t.events[1].ret

no_buy_while_holding ==
    \A k \in 1..Len(tick.events) :
        tick.events[k].op = "buy" => ~positive(tick.events[k].held)

\* C1 as stated: trap never invokes buy for a position whose holding is
\* positive, and in every reachable state the holding of each position is None,
\* zero or the quantity returned by its most recent successful buy.
C1_HeldIsLastBought ==
    /\ no_buy_while_holding
    /\ \A i \in Indexes :
          \/ flat(positions[i].position)
          \/ bought[i] # None /\ positions[i].position = bought[i]

\* C1 as amended: trap never invokes buy for a position whose holding is
\* positive, and the holding of each position is None, zero, the quantity
\* returned by its most recent successful buy or, for a position no trade has
\* touched, the quantity it was created with.
C1_HeldIsLastBoughtOrCreated ==
    /\ [](/\ no_buy_while_holding
          /\ \A i \in Indexes :
                \/ flat(positions[i].position)
                \/ bought[i] # None /\ positions[i].position = bought[i]
                \/ /\ positions[i].buying_count = 0
                   /\ positions[i].selling_count = 0
                   /\ bought[i] = None)
    /\ [][\A i \in Indexes :
            positions'[i].buying_count = 0 /\ positions'[i].selling_count = 0
                => positions'[i].position = positions[i].position]_vars

\* A position bought, sold and bought again holds what the last buy returned,
\* and a tick whose price is in the buying range of a holding position issued
\* no call for it.
C1_Witness ==
    \E i \in Indexes :
        /\ positive(positions[i].position)
        /\ positions[i].buying_count >= 1
        /\ positions[i].position = bought[i]
        /\ ticked(tick) /\ IsOk(fetched(tick))
        /\ is_within_inclusive(positions[i].buying, fetched(tick)[2])
        /\ \A k \in exchange_events(tick) : tick.events[k].pos # i

\* The call an event records: what was passed and what was returned.
call_of(e) == [op |-> e.op, pos |-> e.pos, price |-> e.price, arg |-> e.arg, ret |-> e.ret]
calls_of(t) == [k \in 1..Len(t.events) |-> call_of(t.events[k])]

\* C5: two Limits that differ only in their flat positions being created with
\* None or with Some(0), fed the same prices and exchange Results, issue the
\* same calls in every tick, return the same value, keep the same counters and
\* the same holdings up to None/Some(0), and never sell a zero holding.
C5_ZeroIsNone ==
    /\ calls_of(tick) = calls_of(twin_tick)
    /\ tick.ret = twin_tick.ret
    /\ \A i \in Indexes :
          /\ positions[i].buying_count = twin[i].buying_count
          /\ positions[i].selling_count = twin[i].selling_count
          /\ \/ positions[i].position = twin[i].position
             \/ flat(positions[i].position) /\ flat(twin[i].position)
    /\ \A k \in exchange_events(twin_tick) :
          twin_tick.events[k].op = "sell" => twin_tick.events[k].arg # 0
    /\ \A k \in exchange_events(tick) :
          tick.events[k].op = "sell" => tick.events[k].arg # 0

\* A tick bought for a position that was None in one Limit and Some(0) in the
\* other, at a price inside its selling range as well.
C5_Witness ==
    \E k \in exchange_events(tick) :
        /\ tick.events[k].op = "buy"
        /\ tick.events[k].held # twin_tick.events[k].held
        /\ is_within_inclusive(positions[tick.events[k].pos].selling, tick.events[k].price)

\* C7: every trap call fetches the price exactly once, before any exchange
\* call, and every buy or sell call of the tick carries the fetched price.
C7_OnePricePerTick ==
    ticked(tick) =>
        /\ tick.events[1].op = "price"
        /\ \A k \in exchange_events(tick) :
              /\ tick.events[k].op \in {"buy", "sell"}
              /\ IsOk(fetched(tick))
              /\ tick.events[k].price = fetched(tick)[2]

\* A tick that issued calls for two positions.
C7_Witness ==
    /\ Len(tick.events) >= 3
    /\ tick.events[2].pos # tick.events[3].pos

\* C8: a tick issues at most one exchange call per position, and a buy only
\* for a position that had nothing to sell at the tick's price; a position
\* that sold is not bought in the same tick.
C8_SellBeforeBuy ==
    /\ \A k, l \in exchange_events(tick) :
          tick.events[k].pos = tick.events[l].pos => k = l
    /\ \A k \in exchange_events(tick) :
          LET e == tick.events[k] IN
          e.op = "buy" =>
              ~(is_within_inclusive(positions[e.pos].selling, e.price)
                  /\ e.held # None /\ e.held # Some(0))

\* A position sold at a price that is inside its buying range too, and is flat
\* after the tick.
C8_Witness ==
    \E k \in exchange_events(tick) :
        LET e == tick.events[k] IN
        /\ e.op = "sell" /\ IsOk(e.ret)
        /\ is_within_inclusive(positions[e.pos].buying, e.price)
        /\ positions[e.pos].position = None

\* C9: the exchange calls of a tick are issued in the order of the positions
\* in the list.
C9_DeclarationOrder ==
    \A k, l \in 1..Len(tick.events) :
        k < l => tick.events[k].pos < tick.events[l].pos

\* A tick that issued a call for position 1 and then one for position 2.
C9_Witness ==
    /\ Len(tick.events) >= 3
    /\ tick.events[2].pos = 1
    /\ tick.events[3].pos = 2

\* The position lp after the exchange call e succeeded for it.
committed(lp, e) ==
    IF e.op = "sell"
    THEN [lp EXCEPT !.position = None, !.selling_count = lp.selling_count + 1]
    ELSE [lp EXCEPT !.position = Some(e.ret[2]), !.buying_count = lp.buying_count + 1]

failed_at(t) == t.events[Len(t.events)].pos

\* C10: when an exchange call fails for position i, trap returns that error,
\* the failed call is the last call of the tick, the positions before i keep
\* what the tick did to them, and position i and the later ones are unchanged.
C10_FailureAborts ==
    /\ [](ticked(tick) /\ Len(tick.events) > 1 =>
            /\ \A k \in exchange_events(tick) :
                  IsOk(tick.events[k].ret) <=> (k < Len(tick.events) \/ IsOk(tick.ret))
            /\ ~IsOk(tick.ret) => tick.ret = tick.events[Len(tick.events)].ret)
    /\ [][(Len(tick'.events) > 1 /\ ~IsOk(tick'.ret)) =>
            \A j \in Indexes :
                /\ j >= failed_at(tick') => positions'[j] = positions[j]
                /\ j < failed_at(tick') =>
                      \/ /\ \A k \in exchange_events(tick') : tick'.events[k].pos # j
                         /\ positions'[j] = positions[j]
                      \/ \E k \in exchange_events(tick') :
                            /\ tick'.events[k].pos = j
                            /\ positions'[j] = committed(positions[j], tick'.events[k])]_vars

\* A tick that traded for position 1 and failed for position 2.
C10_Witness ==
    /\ Len(tick.events) = 3
    /\ ~IsOk(tick.ret)
    /\ IsOk(tick.events[2].ret)
    /\ tick.events[3].pos = 2

(***************************************************************************)
(* The methods of one LimitPosition, called directly.                      *)
(***************************************************************************)
Investments == 1..MaxQty
HeldInputs == {None} \cup {Some(q) : q \in (0 - 1)..MaxQty}
PriceInputs == (0 - 1)..(MaxPrice + 1)

mirror(r) == <<MaxPrice - r[1], MaxPrice - r[2]>>

InitPosition ==
    /\ positions \in {<<LimitPosition_new(inv, r, mirror(r), h)>> :
                        inv \in Investments, r \in Prices \X Prices, h \in HeldInputs}
    /\ tick = NoTick
    /\ bought = <<None>>
    /\ twin = positions
    /\ twin_tick = NoTick
    /\ call = NoCall
    /\ tasks = [t \in Tasks |-> Idle]
    /\ locks = <<0>>
    /\ no_strategies

PredictiveBuying(i, price) ==
    /\ call' = [op |-> "predictive_buying", pos |-> i, price |-> price,
                ret |-> predictive_buying(positions[i], price)]
    /\ UNCHANGED <<positions, tick, bought, twin, twin_tick, tasks, locks, strategies>>

PredictiveSelling(i, price) ==
    /\ call' = [op |-> "predictive_selling", pos |-> i, price |-> price,
                ret |-> predictive_selling(positions[i], price)]
    /\ UNCHANGED <<positions, tick, bought, twin, twin_tick, tasks, locks, strategies>>

UpdatePosition(i, position) ==
    /\ positions' = [positions EXCEPT ![i] = update_position(positions[i], position)]
    /\ call' = [op |-> "update_position", pos |-> i, price |-> 0, ret |-> None]
    /\ UNCHANGED <<tick, bought, twin, twin_tick, tasks, locks, strategies>>

NextPosition ==
    \E i \in 1..Len(positions) :
        \/ \E price \in PriceInputs : PredictiveBuying(i, price)
        \/ \E price \in PriceInputs : PredictiveSelling(i, price)
        \/ \E position \in HeldInputs : UpdatePosition(i, position)

SpecPosition == InitPosition /\ [][NextPosition]_vars

(***************************************************************************)
(* Properties of the LimitPosition methods.                                *)
(***************************************************************************)
\* C3: predictive_buying(price) returns Some(investment) exactly when price is
\* inside the buying range, both ends included, and the holding is None or
\* zero; otherwise it returns None; it changes no field of the position.
C3_PredictiveBuying ==
    /\ [](call.op = "predictive_buying" =>
            LET lp == positions[call.pos]
                lo == IF lp.buying[1] <= lp.buying[2] THEN lp.buying[1] ELSE lp.buying[2]
                hi == IF lp.buying[1] <= lp.buying[2] THEN lp.buying[2] ELSE lp.buying[1]
                suggested == /\ lo <= call.price
                             /\ call.price <= hi
                             /\ (lp.position = None \/ lp.position = Some(0))
            IN  /\ suggested => call.ret = Some(lp.investment)
                /\ ~suggested => call.ret = None)
    /\ [][call'.op = "predictive_buying" => positions' = positions]_vars

\* predictive_buying answered Some at the upper end of the buying range for a
\* position holding zero.
C3_Witness ==
    /\ call.op = "predictive_buying"
    /\ call.ret # None
    /\ positions[call.pos].position = Some(0)
    /\ call.price = high(positions[call.pos].buying)
    /\ call.price # low(positions[call.pos].buying)

\* C4: predictive_selling(price) returns Some(held quantity) exactly when price
\* is inside the selling range, both ends included, and the holding is a
\* non-zero quantity; otherwise it returns None; it changes no field of the
\* position.
C4_PredictiveSelling ==
    /\ [](call.op = "predictive_selling" =>
            LET lp == positions[call.pos]
                lo == IF lp.selling[1] <= lp.selling[2] THEN lp.selling[1] ELSE lp.selling[2]
                hi == IF lp.selling[1] <= lp.selling[2] THEN lp.selling[2] ELSE lp.selling[1]
                suggested == /\ lo <= call.price
                             /\ call.price <= hi
                             /\ lp.position # None
                             /\ lp.position # Some(0)
            IN  /\ suggested => call.ret = lp.position
                /\ ~suggested => call.ret = None)
    /\ [][call'.op = "predictive_selling" => positions' = positions]_vars

\* predictive_selling answered Some at the lower end of the selling range.
C4_Witness ==
    /\ call.op = "predictive_selling"
    /\ call.ret # None
    /\ call.price = low(positions[call.pos].selling)
    /\ call.price # high(positions[call.pos].selling)

(***************************************************************************)
(* Limit::trap called by several tasks on the same Limit.  A task is        *)
(* suspended at the three await points (price, sell, buy); between them it  *)
(* runs the synchronous code of trap, in which every access to a holding    *)
(* locks LimitPosition.position, reads or writes it, and unlocks it when    *)
(* the method returns.  Tasks of a multi-threaded executor interleave at    *)
(* each of these steps.                                                     *)
(***************************************************************************)
others == <<tick, bought, twin, twin_tick, call, strategies>>

at(t, pc) == tasks[t].pc = pc

goto(t, pc) == tasks' = [tasks EXCEPT ![t].pc = pc]

\* The task leaves trap (line 127, the `?` of lines 132 and 140, line 148).
return(t) == tasks' = [tasks EXCEPT ![t] = Idle]

\* The for loop moves to position i, or ends after the last one (line 130).
iterate(t, i) ==
    IF i > Len(positions)
    THEN return(t)
    ELSE tasks' = [tasks EXCEPT ![t].pc = "predictive_selling", ![t].idx = i, ![t].arg = 0]

lock(t, i) == locks[i] = 0 /\ locks' = [locks EXCEPT ![i] = t]

\* The guard of the holding is kept when the method returns.
unlock_guard_kept(t, i) == locks[i] = t /\ locks' = locks

unlock(t, i) == locks[i] = t /\ locks' = [locks EXCEPT ![i] = 0]

\* line 125: price() is called and awaited.
Start(t) ==
    /\ at(t, "idle")
    /\ trades(positions, 1) < MaxTrades
    /\ goto(t, "await_price")
    /\ UNCHANGED <<positions, locks, others>>

\* lines 125-128: the price operation returns.
PriceReturns(t, price_ret) ==
    /\ at(t, "await_price")
    /\ IF IsOk(price_ret)
       THEN tasks' = [tasks EXCEPT ![t].pc = "predictive_selling",
                                   ![t].idx = 1, ![t].price = price_ret[2]]
       ELSE return(t)
    /\ UNCHANGED <<positions, locks, others>>

\* lines 67-68: predictive_selling checks the range and locks the holding.
PredictiveSellingLock(t) ==
    /\ at(t, "predictive_selling")
    /\ IF is_within_inclusive(positions[tasks[t].idx].selling, tasks[t].price)
       THEN lock(t, tasks[t].idx) /\ goto(t, "predictive_selling_locked")
       ELSE goto(t, "predictive_buying") /\ UNCHANGED locks
    /\ UNCHANGED <<positions, others>>

\* lines 70-79 and 131: predictive_selling reads the holding and returns.
PredictiveSellingRead(t) ==
    /\ at(t, "predictive_selling_locked")
    /\ unlock(t, tasks[t].idx)
    /\ LET quantity == predictive_selling(positions[tasks[t].idx], tasks[t].price)
       IN  IF quantity # None
           THEN tasks' = [tasks EXCEPT ![t].pc = "sell", ![t].arg = quantity[1]]
           ELSE goto(t, "predictive_buying")
    /\ UNCHANGED <<positions, others>>

\* line 132: sell(price, quantity) is called and awaited.
Sell(t) ==
    /\ at(t, "sell")
    /\ goto(t, "await_sell")
    /\ UNCHANGED <<positions, locks, others>>

\* line 132: the sell operation returns.
SellReturns(t, outcome) ==
    /\ at(t, "await_sell")
    /\ IF IsOk(outcome) THEN goto(t, "update_sold") ELSE return(t)
    /\ UNCHANGED <<positions, locks, others>>

\* lines 133 and 83: update_position(None) locks the holding.
UpdateSoldLock(t) ==
    /\ at(t, "update_sold")
    /\ lock(t, tasks[t].idx)
    /\ goto(t, "update_sold_locked")
    /\ UNCHANGED <<positions, others>>

\* lines 133-136 and 85: the holding is written, the counter incremented.
UpdateSold(t) ==
    /\ at(t, "update_sold_locked")
    /\ unlock(t, tasks[t].idx)
    /\ positions' = [positions EXCEPT ![tasks[t].idx] =
                        fetch_add_selling_count(update_position(@, None), 1)]
    /\ iterate(t, tasks[t].idx + 1)
    /\ UNCHANGED others

\* lines 48-49: predictive_buying checks the range and locks the holding.
PredictiveBuyingLock(t) ==
    /\ at(t, "predictive_buying")
    /\ IF is_within_inclusive(positions[tasks[t].idx].buying, tasks[t].price)
       THEN lock(t, tasks[t].idx) /\ goto(t, "predictive_buying_locked")
       ELSE iterate(t, tasks[t].idx + 1) /\ UNCHANGED locks
    /\ UNCHANGED <<positions, others>>

\* lines 51-63 and 139: predictive_buying reads the holding and returns.
PredictiveBuyingRead(t) ==
    /\ at(t, "predictive_buying_locked")
    /\ unlock(t, tasks[t].idx)
    /\ LET amount == predictive_buying(positions[tasks[t].idx], tasks[t].price)
       IN  IF amount # None
           THEN tasks' = [tasks EXCEPT ![t].pc = "buy", ![t].arg = amount[1]]
           ELSE iterate(t, tasks[t].idx + 1)
    /\ UNCHANGED <<positions, others>>

\* line 140: buy(price, amount) is called and awaited.
Buy(t) ==
    /\ at(t, "buy")
    /\ goto(t, "await_buy")
    /\ UNCHANGED <<positions, locks, others>>

\* line 140: the buy operation returns.
BuyReturns(t, outcome) ==
    /\ at(t, "await_buy")
    /\ IF IsOk(outcome)
       THEN tasks' = [tasks EXCEPT ![t].pc = "update_bought", ![t].arg = outcome[2]]
       ELSE return(t)
    /\ UNCHANGED <<positions, locks, others>>

\* lines 141 and 83: update_position(Some(quantity)) locks the holding.
UpdateBoughtLock(t) ==
    /\ at(t, "update_bought")
    /\ lock(t, tasks[t].idx)
    /\ goto(t, "update_bought_locked")
    /\ UNCHANGED <<positions, others>>

\* lines 141-144 and 85: the holding is written, the counter incremented.
UpdateBought(t) ==
    /\ at(t, "update_bought_locked")
    /\ unlock(t, tasks[t].idx)
    /\ positions' = [positions EXCEPT ![tasks[t].idx] =
                        fetch_add_buying_count(update_position(@, Some(tasks[t].arg)), 1)]
    /\ iterate(t, tasks[t].idx + 1)
    /\ UNCHANGED others

NextConc ==
    \E t \in Tasks :
        \/ Start(t)
        \/ \E price_ret \in PriceResults : PriceReturns(t, price_ret)
        \/ PredictiveSellingLock(t)
        \/ PredictiveSellingRead(t)
        \/ Sell(t)
        \/ \E outcome \in {Ok(0)} \cup {Err(e) : e \in Errors} : SellReturns(t, outcome)
        \/ UpdateSoldLock(t)
        \/ UpdateSold(t)
        \/ PredictiveBuyingLock(t)
        \/ PredictiveBuyingRead(t)
        \/ Buy(t)
        \/ \E outcome \in Outcomes : BuyReturns(t, outcome)
        \/ UpdateBoughtLock(t)
        \/ UpdateBought(t)

SpecConc == Init /\ [][NextConc]_vars

(***************************************************************************)
(* Properties of concurrent trap calls.                                    *)
(***************************************************************************)
in_flight(op, i) == {t \in Tasks : at(t, op) /\ tasks[t].idx = i}

\* C2: when trap calls run concurrently on one Limit, no position ever has
\* more than one buy in flight, nor more than one sell in flight.
C2_OneInFlight ==
    \A i \in Indexes :
        /\ Cardinality(in_flight("await_buy", i)) <= 1
        /\ Cardinality(in_flight("await_sell", i)) <= 1

\* C6: no buy operation is invoked for a position that is holding when the
\* call is made, and no sell operation for a position that is flat then: the
\* attempt fails with AlreadyHeld or NothingHeld instead.
C6_HeldChecked ==
    [][\A t \in Tasks :
          /\ (at(t, "buy") /\ tasks'[t].pc = "await_buy")
                => flat(positions[tasks[t].idx].position)
          /\ (at(t, "sell") /\ tasks'[t].pc = "await_sell")
                => ~flat(positions[tasks[t].idx].position)]_vars

holding_locks(t) == {i \in Indexes : locks[i] = t}

Awaiting == {"await_price", "await_sell", "await_buy"}

Locked == {"predictive_selling_locked", "update_sold_locked",
           "predictive_buying_locked", "update_bought_locked"}

\* C11: during trap no position lock is held at an await point (price fetch,
\* buy call, sell call); a lock is taken for one read or one write of the
\* holding and released by the very next step of the task, before the next
\* exchange call starts; a task never holds the locks of two positions; and
\* the holder of a lock can always take the step that releases it, so
\* concurrent trap calls cannot deadlock on position locks.
C11_NoLockAcrossAwait ==
    /\ [](\A t \in Tasks :
            /\ tasks[t].pc \in Awaiting \cup {"sell", "buy", "idle"}
                    => holding_locks(t) = {}
            /\ Cardinality(holding_locks(t)) <= 1
            /\ holding_locks(t) # {}
                    => /\ tasks[t].pc \in Locked
                       /\ holding_locks(t) = {tasks[t].idx}
                       /\ ENABLED (\/ PredictiveSellingRead(t)
                                   \/ UpdateSold(t)
                                   \/ PredictiveBuyingRead(t)
                                   \/ UpdateBought(t)))
    /\ [][\A t \in Tasks :
            (holding_locks(t) # {} /\ tasks'[t] # tasks[t])
                => \A i \in Indexes : locks'[i] # t]_vars

\* One task is suspended in the sell or buy call of a position while another
\* task holds the lock of that same position.
C11_Witness ==
    \E t \in Tasks, u \in Tasks :
        /\ t # u
        /\ tasks[t].pc \in {"await_sell", "await_buy"}
        /\ locks[tasks[t].idx] = u

(***************************************************************************)
(* Decimal (rust_decimal, re-exported by noun): a sign, an unsigned        *)
(* mantissa and a scale, the value being mantissa / 10^scale.  The mantissa *)
(* is kept as its decimal digits, least significant first and without      *)
(* leading zeros, so that it is not limited to the width of a machine      *)
(* integer.  Every Decimal is kept normalised (no trailing fractional zero, *)
(* zero unsigned), so that equal values are equal records, as == on         *)
(* Decimal compares values.                                                *)
(***************************************************************************)
RECURSIVE digits_of(_)
digits_of(n) == IF n = 0 THEN <<>> ELSE <<n % 10>> \o digits_of(n \div 10)

RECURSIVE strip(_)
strip(a) ==
    IF a # <<>> /\ a[Len(a)] = 0 THEN strip(SubSeq(a, 1, Len(a) - 1)) ELSE a

digit(a, i) == IF i <= Len(a) THEN a[i] ELSE 0

RECURSIVE nat_add_from(_, _, _, _)
nat_add_from(a, b, i, carry) ==
    IF i > Len(a) /\ i > Len(b)
    THEN IF carry = 0 THEN <<>> ELSE <<carry>>
    ELSE LET t == digit(a, i) + digit(b, i) + carry
         IN  <<t % 10>> \o nat_add_from(a, b, i + 1, t \div 10)

nat_add(a, b) == nat_add_from(a, b, 1, 0)

\* a - b for a >= b.
RECURSIVE nat_sub_from(_, _, _, _)
nat_sub_from(a, b, i, borrow) ==
    IF i > Len(a) THEN <<>>
    ELSE LET t == digit(a, i) - digit(b, i) - borrow
         IN  <<(t + 10) % 10>> \o nat_sub_from(a, b, i + 1, IF t < 0 THEN 1 ELSE 0)

nat_sub(a, b) == strip(nat_sub_from(a, b, 1, 0))

nat_lt(a, b) ==
    \/ Len(a) < Len(b)
    \/ /\ Len(a) = Len(b)
       /\ \E i \in 1..Len(a) :
            a[i] < b[i] /\ \A j \in (i + 1)..Len(a) : a[j] = b[j]

nat_le(a, b) == a = b \/ nat_lt(a, b)

\* a * 10^k, and the integer part of a / 10^k.
nat_shift(a, k) == IF a = <<>> THEN a ELSE [i \in 1..k |-> 0] \o a

nat_drop(a, k) == SubSeq(a, k + 1, Len(a))

RECURSIVE nat_mul_digit_from(_, _, _, _)
nat_mul_digit_from(a, d, i, carry) ==
    IF i > Len(a)
    THEN digits_of(carry)
    ELSE LET t == a[i] * d + carry
         IN  <<t % 10>> \o nat_mul_digit_from(a, d, i + 1, t \div 10)

nat_mul_digit(a, d) == strip(nat_mul_digit_from(a, d, 1, 0))

RECURSIVE nat_mul_from(_, _, _)
nat_mul_from(a, b, i) ==
    IF i > Len(b) THEN <<>>
    ELSE nat_add(nat_shift(nat_mul_digit(a, b[i]), i - 1), nat_mul_from(a, b, i + 1))

nat_mul(a, b) == nat_mul_from(a, b, 1)

RECURSIVE nat_value(_)
nat_value(a) == IF a = <<>> THEN 0 ELSE a[1] + 10 * nat_value(Tail(a))

\* The integer part of a / n for an integer n > 0, by long division from the
\* most significant digit of a: rem[i] is the remainder left after the i most
\* significant digits of a.
nat_div(a, n) ==
    LET len == Len(a)
        rem[i \in 0..len] ==
            IF i = 0 THEN 0 ELSE (rem[i - 1] * 10 + a[len - i + 1]) % n
    IN  strip([k \in 1..len |-> (rem[len - k] * 10 + a[k]) \div n])

RECURSIVE normalize(_)
normalize(d) ==
    IF d.m = <<>> THEN [neg |-> FALSE, m |-> <<>>, s |-> 0]
    ELSE IF d.s > 0 /\ d.m[1] = 0
    THEN normalize([d EXCEPT !.m = Tail(d.m), !.s = d.s - 1])
    ELSE d

\* The Decimal n / 10^s, for an integer n.
dec(n, s) ==
    normalize([neg |-> n < 0, m |-> digits_of(IF n < 0 THEN 0 - n ELSE n), s |-> s])

ZERO == dec(0, 0)
ONE == dec(1, 0)
TWO == dec(2, 0)

Max(x, y) == IF x >= y THEN x ELSE y

dec_neg(a) == normalize([a EXCEPT !.neg = ~a.neg])

dec_add(a, b) ==
    LET s == Max(a.s, b.s)
        x == nat_shift(a.m, s - a.s)
        y == nat_shift(b.m, s - b.s)
    IN  IF a.neg = b.neg
        THEN normalize([neg |-> a.neg, m |-> nat_add(x, y), s |-> s])
        ELSE IF nat_lt(x, y)
        THEN normalize([neg |-> b.neg, m |-> nat_sub(y, x), s |-> s])
        ELSE normalize([neg |-> a.neg, m |-> nat_sub(x, y), s |-> s])

dec_sub(a, b) == dec_add(a, dec_neg(b))

dec_mul(a, b) ==
    normalize([neg |-> a.neg # b.neg, m |-> nat_mul(a.m, b.m), s |-> a.s + b.s])

dec_lt(a, b) == dec_sub(a, b).neg
dec_le(a, b) == ~dec_lt(b, a)
dec_gt(a, b) == dec_lt(b, a)

\* trunc_with_scale(p): the digits after the p-th decimal place are dropped.
trunc_with_scale(a, p) ==
    IF a.s <= p THEN a
    ELSE normalize([a EXCEPT !.m = nat_drop(a.m, a.s - p), !.s = p])

\* round_dp(p): rounded to p decimal places, a tie going to the even digit.
round_dp(a, p) ==
    IF a.s <= p THEN a
    ELSE LET k == a.s - p
             q == nat_drop(a.m, k)
             rest == strip(SubSeq(a.m, 1, k))
             half == nat_shift(<<5>>, k - 1)
             up == nat_lt(half, rest) \/ (rest = half /\ digit(q, 1) % 2 = 1)
         IN  normalize([neg |-> a.neg,
                        m |-> IF up THEN nat_add(q, <<1>>) ELSE q,
                        s |-> p])

\* a / b for b # 0.  A quotient has at most 28 decimal places in rust_decimal;
\* the places beyond them are dropped here.  The divisor must have fewer than
\* nine significant digits.
dec_div(a, b) ==
    LET k == 28 + b.s - a.s
        dividend == IF k >= 0 THEN nat_shift(a.m, k) ELSE nat_drop(a.m, 0 - k)
    IN  normalize([neg |-> a.neg # b.neg,
                   m |-> nat_div(dividend, nat_value(b.m)),
                   s |-> 28])

(***************************************************************************)
(* Grid: a bound split into positions, each with a buying band and a       *)
(* selling band, and an optional stop-loss fraction.                       *)
(***************************************************************************)
MaxCopies == 4

Order_new(price, amount, quantity, timestamp) ==
    [price |-> price, amount |-> amount, quantity |-> quantity,
     timestamp |-> timestamp]

\* Position::Stock(order); Position::None is None.
Stock(order) == <<order>>

\* PositionSide.
Increase(order) == <<"Increase", order>>
Decrease(order) == <<"Decrease", order>>

Bound(a, b) == <<a, b>>

\* The ends of the bound count as within it.
Bound_is_within_inclusive(bound, value) == dec_le(bound[1], value) /\ dec_le(value, bound[2])

Bound_is_within(bound, value) == dec_gt(value, bound[1]) /\ dec_lt(value, bound[2])

Bound_high(bound) == IF dec_gt(bound[1], bound[2]) THEN bound[1] ELSE bound[2]

Bound_low(bound) == IF dec_lt(bound[1], bound[2]) THEN bound[1] ELSE bound[2]

BoundPosition_new(buying, selling, position) ==
    [buying |-> buying, selling |-> selling,
     position |-> IF position = None THEN None ELSE position[1]]

\* The interval is rounded to 6 decimal places instead of truncated.
with_copies_rounded(bound, n) ==
    LET interval == round_dp(dec_div(dec_sub(Bound_high(bound), Bound_low(bound)),
                                     dec(n, 0)), 6)
    IN  [k \in 1..(n - 1) |->
            LET buying == dec_add(Bound_low(bound), dec_mul(interval, dec(k - 1, 0)))
                selling == dec_add(Bound_low(bound), dec_mul(interval, dec(k + 1, 0)))
            IN  BoundPosition_new(
                    Bound(buying, dec_add(buying, dec_div(interval, TWO))),
                    Bound(dec_sub(selling, dec_div(interval, TWO)), selling),
                    None)]

\* The selling band starts one interval above the buying band instead of two.
with_copies_adjacent(bound, n) ==
    LET interval == trunc_with_scale(
                        dec_div(dec_sub(Bound_high(bound), Bound_low(bound)),
                                dec(n, 0)), 6)
    IN  [k \in 1..(n - 1) |->
            LET buying == dec_add(Bound_low(bound), dec_mul(interval, dec(k - 1, 0)))
                selling == dec_add(Bound_low(bound), dec_mul(interval, dec(k, 0)))
            IN  BoundPosition_new(
                    Bound(buying, dec_add(buying, dec_div(interval, TWO))),
                    Bound(dec_sub(selling, dec_div(interval, TWO)), selling),
                    None)]

\* The position of index i in the code is element k = i + 1 here.
with_copies(bound, n) ==
    LET interval == trunc_with_scale(
                        dec_div(dec_sub(Bound_high(bound), Bound_low(bound)),
                                dec(n, 0)), 6)
    IN  [k \in 1..(n - 1) |->
            LET buying == dec_add(Bound_low(bound), dec_mul(interval, dec(k - 1, 0)))
                selling == dec_add(Bound_low(bound), dec_mul(interval, dec(k + 1, 0)))
            IN  BoundPosition_new(
                    Bound(buying, dec_add(buying, dec_div(interval, TWO))),
                    Bound(dec_sub(selling, dec_div(interval, TWO)), selling),
                    None)]

GridOptions_default == [stop_loss |-> None]

Grid_new(investment, bound, n, options) ==
    [bound |-> Bound(bound[1], bound[2]),
     investment |-> investment,
     positions |-> with_copies(Bound(bound[1], bound[2]), n),
     options |-> IF options = None THEN GridOptions_default ELSE options[1]]

\* The index of the first position whose buying band holds the price.
find_buying_bound_position(g, price) ==
    LET found == {k \in 1..Len(g.positions) :
                    Bound_is_within(g.positions[k].buying, price)}
    IN  IF found = {} THEN None
        ELSE Some(CHOOSE k \in found : \A j \in found : k <= j)

find_selling_bound_position(g, price) ==
    LET found == {k \in 1..Len(g.positions) :
                    Bound_is_within(g.positions[k].selling, price)}
    IN  IF found = {} THEN None
        ELSE Some(CHOOSE k \in found : \A j \in found : k <= j)

\* The threshold price itself does not count.
is_reach_stop_loss_exclusive(g, price) ==
    /\ g.options.stop_loss # None
    /\ dec_lt(price, dec_mul(Bound_low(g.bound),
                             dec_sub(ONE, g.options.stop_loss[1])))

\* The threshold lies above the low end of the bound by the stop-loss fraction.
is_reach_stop_loss_above(g, price) ==
    /\ g.options.stop_loss # None
    /\ dec_le(price, dec_mul(Bound_low(g.bound),
                             dec_add(ONE, g.options.stop_loss[1])))

is_reach_stop_loss(g, price) ==
    /\ g.options.stop_loss # None
    /\ dec_le(price, dec_mul(Bound_low(g.bound),
                             dec_sub(ONE, g.options.stop_loss[1])))

Grid_predictive_buying(g, price) ==
    LET bound == find_buying_bound_position(g, price)
    IN  IF bound = None THEN None
        ELSE IF g.positions[bound[1]].position = None
        THEN Some(dec_div(g.investment, dec(Len(g.positions) + 1, 0)))
        ELSE None

\* The orders of the positions i.. that hold stock, in position order.
RECURSIVE stock_orders(_, _)
stock_orders(ps, i) ==
    IF i > Len(ps) THEN <<>>
    ELSE (IF ps[i].position # None THEN <<ps[i].position[1]>> ELSE <<>>)
            \o stock_orders(ps, i + 1)

\* The buying price is taken at the low end of the buying band and the selling
\* price at the high end of the selling band.
predictive_lowest_profit_price_outside(g) ==
    [j \in 1..(2 * Len(g.positions)) |->
        LET i == g.positions[(j + 1) \div 2]
        IN  IF j % 2 = 1 THEN trunc_with_scale(dec_mul(i.buying[1], dec(9999, 4)), 8)
            ELSE trunc_with_scale(dec_mul(i.selling[2], dec(10001, 4)), 8)]

\* Decimal::from_f64(0.9999) and Decimal::from_f64(1.0001).
below == dec(9999, 4)
above == dec(10001, 4)

\* Element 2k - 1 is the buying price and element 2k the selling price of
\* position k.
predictive_lowest_profit_price(g) ==
    [j \in 1..(2 * Len(g.positions)) |->
        LET i == g.positions[(j + 1) \div 2]
            buying_price == dec_mul(i.buying[2], below)
            selling_price == dec_mul(i.selling[1], above)
        IN  IF j % 2 = 1 THEN trunc_with_scale(buying_price, 8)
            ELSE trunc_with_scale(selling_price, 8)]

predictive_highest_profit_price(g) ==
    [j \in 1..(2 * Len(g.positions)) |->
        LET i == g.positions[(j + 1) \div 2]
            buying_price == dec_mul(i.buying[1], above)
            selling_price == dec_mul(i.selling[2], below)
        IN  IF j % 2 = 1 THEN trunc_with_scale(buying_price, 8)
            ELSE trunc_with_scale(selling_price, 8)]

\* At the stop-loss only the position whose selling band holds the price is
\* sold.
Grid_predictive_selling_band_only(g, price) ==
    LET bound == find_selling_bound_position(g, price)
    IN  IF bound = None THEN None
        ELSE IF g.positions[bound[1]].position # None
        THEN Some(<<g.positions[bound[1]].position[1]>>)
        ELSE None

Grid_predictive_selling(g, price) ==
    IF is_reach_stop_loss(g, price)
    THEN Some(stock_orders(g.positions, 1))
    ELSE LET bound == find_selling_bound_position(g, price)
         IN  IF bound = None THEN None
             ELSE IF g.positions[bound[1]].position # None
             THEN Some(<<g.positions[bound[1]].position[1]>>)
             ELSE None

\* The position is looked up by its selling band.
Grid_update_position_by_selling(g, side) ==
    LET bound == find_selling_bound_position(g, side[2].price)
    IN  IF bound = None THEN <<"panic", g>>
        ELSE Ok([g EXCEPT !.positions[bound[1]].position =
                    IF side[1] = "Increase" THEN Stock(side[2]) ELSE None])

\* The Grid after update_position(side), or a panic when the unwrap of
\* lines 226 and 233 finds no buying band holding the price of the order.
Grid_update_position(g, side) ==
    LET bound == find_buying_bound_position(g, side[2].price)
    IN  IF bound = None THEN <<"panic", g>>
        ELSE Ok([g EXCEPT !.positions[bound[1]].position =
                    IF side[1] = "Increase" THEN Stock(side[2]) ELSE None])

(***************************************************************************)
(* The methods of one Grid, called directly.                               *)
(***************************************************************************)
\* No Limit is involved.
no_limit ==
    /\ positions = <<>>
    /\ tick = NoTick
    /\ bought = <<>>
    /\ twin = <<>>
    /\ twin_tick = NoTick
    /\ tasks = [t \in Tasks |-> Idle]
    /\ locks = <<>>

\* (50, 90) is the bound of the tests; (3, 1) is given high end first and its
\* thirds do not end within 6 decimal places; (1, 1.000002) is narrower than
\* three millionths.
GridBounds ==
    {<<dec(50, 0), dec(90, 0)>>,
     <<dec(3, 0), dec(1, 0)>>,
     <<dec(1, 0), dec(1000002, 6)>>}

GridInvestments == {dec(100, 0)}

GridOptionsInputs == {None, Some([stop_loss |-> Some(dec(5, 2))])}

\* A stop-loss of 0, whose threshold is the low end of the bound itself, is
\* tried on the bound (3, 1).
GridOptionsFor(bound) ==
    GridOptionsInputs \cup
        (IF bound = <<dec(3, 0), dec(1, 0)>> THEN {Some([stop_loss |-> Some(ZERO)])}
         ELSE {})

midpoint(bound) == dec_mul(dec_add(bound[1], bound[2]), dec(5, 1))

\* The prices the Grid is probed with: the ends and the middle of every band,
\* the low end of the bound, and the stop-loss threshold with the prices one
\* millionth below and above it.
probes(g) ==
    UNION {{p.buying[1], midpoint(p.buying), p.buying[2],
            p.selling[1], midpoint(p.selling), p.selling[2]} :
                p \in {g.positions[k] : k \in 1..Len(g.positions)}}
    \cup {Bound_low(g.bound)}
    \cup (IF g.options.stop_loss = None THEN {}
          ELSE LET threshold == dec_mul(Bound_low(g.bound),
                                        dec_sub(ONE, g.options.stop_loss[1]))
               IN  {threshold, dec_sub(threshold, dec(1, 6)),
                    dec_add(threshold, dec(1, 6))})

InitGrid ==
    /\ \E investment \in GridInvestments, bound \in GridBounds, n \in 1..MaxCopies :
        \E options \in GridOptionsFor(bound) :
            /\ grid = Grid_new(investment, bound, n, options)
            /\ copies = n
    /\ call = NoCall
    /\ no_limit
    /\ no_exchange
    /\ percentage = None
    /\ treasurer = None
    /\ ticks = <<>>

GridPredictiveBuying(price) ==
    /\ call' = [op |-> "predictive_buying", price |-> price,
                ret |-> Grid_predictive_buying(grid, price)]
    /\ UNCHANGED <<limit, strategies>>

GridPredictiveSelling(price) ==
    /\ call' = [op |-> "predictive_selling", price |-> price,
                ret |-> Grid_predictive_selling(grid, price)]
    /\ UNCHANGED <<limit, strategies>>

IsReachStopLoss(price) ==
    /\ call' = [op |-> "is_reach_stop_loss", price |-> price,
                ret |-> is_reach_stop_loss(grid, price)]
    /\ UNCHANGED <<limit, strategies>>

GridUpdatePosition(side) ==
    LET r == Grid_update_position(grid, side)
    IN  /\ grid' = r[2]
        /\ call' = [op |-> "update_position", price |-> side[2].price,
                    side |-> side, ret |-> r[1]]
        /\ UNCHANGED <<limit, copies, percentage, treasurer, ticks, exchange>>

PredictiveLowestProfitPrice ==
    /\ call' = [op |-> "predictive_lowest_profit_price", price |-> None,
                ret |-> predictive_lowest_profit_price(grid)]
    /\ UNCHANGED <<limit, strategies>>

PredictiveHighestProfitPrice ==
    /\ call' = [op |-> "predictive_highest_profit_price", price |-> None,
                ret |-> predictive_highest_profit_price(grid)]
    /\ UNCHANGED <<limit, strategies>>

NextGrid ==
    \/ \E price \in probes(grid) :
        \/ GridPredictiveBuying(price)
        \/ GridPredictiveSelling(price)
        \/ IsReachStopLoss(price)
        \/ \E order \in {Order_new(price, grid.investment, ONE, 0)} :
            \/ GridUpdatePosition(Increase(order))
            \/ GridUpdatePosition(Decrease(order))
    \/ PredictiveLowestProfitPrice
    \/ PredictiveHighestProfitPrice

SpecGrid == InitGrid /\ [][NextGrid]_vars

(***************************************************************************)
(* Properties of the Grid.                                                 *)
(***************************************************************************)
ends_low(bound) == IF dec_le(bound[1], bound[2]) THEN bound[1] ELSE bound[2]
ends_high(bound) == IF dec_le(bound[1], bound[2]) THEN bound[2] ELSE bound[1]

\* Twice the width of the first buying band: the interval of the split.
split_interval == dec_mul(TWO, dec_sub(grid.positions[1].buying[2],
                                       grid.positions[1].buying[1]))

bands(ps) == [k \in 1..Len(ps) |-> <<ps[k].buying, ps[k].selling>>]

\* C12: for a bound (low, high) and copies >= 2, with I = (high - low) / copies
\* truncated to 6 decimal places (I is a whole number of millionths,
\* I * copies <= high - low < (I + 0.000001) * copies), the split has exactly
\* copies - 1 positions, position i (counted from 0) buying in
\* (low + i*I, low + i*I + I/2) and selling in
\* (low + (i+2)*I - I/2, low + (i+2)*I); a second call with the same inputs
\* returns the same list; the 4-copy grid over (50, 90) has the buying bands
\* (50,55), (60,65), (70,75) and the selling bands (65,70), (75,80), (85,90).
C12_SplitLayout ==
    copies >= 2 =>
        LET lo == ends_low(grid.bound)
            width == dec_sub(ends_high(grid.bound), lo)
            I == split_interval
            half == dec_mul(I, dec(5, 1))
        IN  /\ Len(grid.positions) = copies - 1
            /\ I.s <= 6
            /\ ~I.neg
            /\ dec_le(dec_mul(I, dec(copies, 0)), width)
            /\ dec_lt(width, dec_mul(dec_add(I, dec(1, 6)), dec(copies, 0)))
            /\ \A k \in 1..(copies - 1) :
                LET b == dec_add(lo, dec_mul(dec(k - 1, 0), I))
                    t == dec_add(lo, dec_mul(dec(k + 1, 0), I))
                IN  /\ grid.positions[k].buying = <<b, dec_add(b, half)>>
                    /\ grid.positions[k].selling = <<dec_sub(t, half), t>>
            /\ bands(with_copies(grid.bound, copies)) = bands(grid.positions)
            /\ (grid.bound = <<dec(50, 0), dec(90, 0)>> /\ copies = 4) =>
                    bands(grid.positions) =
                        << <<<<dec(50, 0), dec(55, 0)>>, <<dec(65, 0), dec(70, 0)>>>>,
                           <<<<dec(60, 0), dec(65, 0)>>, <<dec(75, 0), dec(80, 0)>>>>,
                           <<<<dec(70, 0), dec(75, 0)>>, <<dec(85, 0), dec(90, 0)>>>> >>

\* The 3-copy grid over (50, 90), whose interval 13.333333 is a truncation: the
\* first buying band ends at 56.6666665.
C12_Witness ==
    /\ copies = 3
    /\ grid.bound = <<dec(50, 0), dec(90, 0)>>
    /\ Len(grid.positions) = 2
    /\ grid.positions[1].buying[2] = dec(566666665, 7)

\* Every price of band a is at most every price of band b.
lies_below(a, b) == dec_le(ends_high(a), ends_low(b))

\* C13 as stated: with copies >= 3 and high > low every buying band lies
\* entirely below its own selling band, and the buying band of every position
\* but the first lies above the selling band of the position before it.
C13_BuyingAbovePreviousSelling ==
    (copies >= 3 /\ grid.bound[1] # grid.bound[2]) =>
        /\ \A k \in 1..Len(grid.positions) :
            lies_below(grid.positions[k].buying, grid.positions[k].selling)
        /\ \A k \in 2..Len(grid.positions) :
            lies_below(grid.positions[k - 1].selling, grid.positions[k].buying)

\* C13: with copies >= 3 and high > low every buying band lies entirely below
\* its own selling band, and the buying band of every position but the first
\* lies below the selling band of the position before it, ending where that
\* selling band starts, and above the buying band of the position before it.
C13_BuyingBelowPreviousSelling ==
    (copies >= 3 /\ grid.bound[1] # grid.bound[2]) =>
        /\ \A k \in 1..Len(grid.positions) :
            lies_below(grid.positions[k].buying, grid.positions[k].selling)
        /\ \A k \in 2..Len(grid.positions) :
            /\ lies_below(grid.positions[k].buying, grid.positions[k - 1].selling)
            /\ grid.positions[k].buying[2] = grid.positions[k - 1].selling[1]
            /\ lies_below(grid.positions[k - 1].buying, grid.positions[k].buying)

\* A grid of three positions with bands of non-zero width: the second buying
\* band starts above the first and ends where the first selling band starts.
C13_Witness ==
    /\ copies = 4
    /\ Len(grid.positions) = 3
    /\ dec_lt(grid.positions[1].buying[1], grid.positions[1].buying[2])
    /\ dec_lt(grid.positions[1].buying[2], grid.positions[2].buying[1])
    /\ grid.positions[2].buying[2] = grid.positions[1].selling[1]

\* C14: the amount predictive_buying suggests is the total investment divided
\* by copies - 1, the number of positions, truncated to 6 decimal places, so
\* that buying every position once commits no more than the investment.
C14_BuyAmount ==
    (call.op = "predictive_buying" /\ call.ret # None) =>
        /\ call.ret = Some(trunc_with_scale(
                            dec_div(grid.investment, dec(copies - 1, 0)), 6))
        /\ dec_le(dec_mul(call.ret[1], dec(copies - 1, 0)), grid.investment)

\* C15: is_reach_stop_loss(price) is true exactly when a stop_loss fraction s
\* is configured and price <= low(bound) * (1 - s), that is
\* price + low * s <= low; with no stop_loss it is false for every price.
C15_StopLoss ==
    call.op = "is_reach_stop_loss" =>
        LET lo == ends_low(grid.bound)
            stop == grid.options.stop_loss
        IN  /\ stop = None => call.ret = FALSE
            /\ stop # None =>
                (call.ret = TRUE <=>
                    dec_le(dec_add(call.price, dec_mul(lo, stop[1])), lo))

\* is_reach_stop_loss answered true at the threshold price itself, below the
\* low end of the bound.
C15_Witness ==
    /\ call.op = "is_reach_stop_loss"
    /\ call.ret = TRUE
    /\ grid.options.stop_loss # None
    /\ dec_lt(call.price, ends_low(grid.bound))
    /\ call.price = dec_mul(ends_low(grid.bound),
                            dec_sub(ONE, grid.options.stop_loss[1]))

holders(g) == {k \in 1..Len(g.positions) : g.positions[k].position # None}

reached(g, price) ==
    /\ g.options.stop_loss # None
    /\ dec_le(dec_add(price, dec_mul(ends_low(g.bound), g.options.stop_loss[1])),
              ends_low(g.bound))

inside(bound, price) == dec_lt(bound[1], price) /\ dec_lt(price, bound[2])

\* C16: when the price has reached the stop-loss, predictive_selling returns
\* the orders of the positions that hold stock, one each, in position order,
\* and none for a flat position, wherever the price lies; otherwise it
\* returns nothing or the single order of the position whose selling band
\* holds the price.
C16_Liquidation ==
    call.op = "predictive_selling" =>
        IF reached(grid, call.price)
        THEN /\ call.ret # None
             /\ Len(call.ret[1]) = Cardinality(holders(grid))
             /\ \E f \in [1..Len(call.ret[1]) -> holders(grid)] :
                    /\ \A x \in 1..Len(call.ret[1]), y \in 1..Len(call.ret[1]) :
                            x < y => f[x] < f[y]
                    /\ \A x \in 1..Len(call.ret[1]) :
                            call.ret[1][x] = grid.positions[f[x]].position[1]
        ELSE \/ call.ret = None
             \/ /\ Len(call.ret[1]) = 1
                /\ \E k \in holders(grid) :
                    /\ inside(grid.positions[k].selling, call.price)
                    /\ call.ret[1][1] = grid.positions[k].position[1]

\* At the stop-loss, with two positions holding and one flat, the two orders
\* were returned although no selling band holds the price.
C16_Witness ==
    /\ call.op = "predictive_selling"
    /\ reached(grid, call.price)
    /\ Len(grid.positions) = 3
    /\ Cardinality(holders(grid)) = 2
    /\ call.ret # None
    /\ Len(call.ret[1]) = 2
    /\ \A k \in 1..3 : ~inside(grid.positions[k].selling, call.price)

(***************************************************************************)
(* Percentage: one buy, then one sell once the price has moved by a        *)
(* percentage of the entry price, then completed.                          *)
(***************************************************************************)
MaxOrders == 2

PriceSignal_new(price, timestamp) == [value |-> price, timestamp |-> timestamp]

Percentage_new(investment, target_percent, stop_percent, start_buying_price) ==
    [investment |-> investment,
     target_percent |-> target_percent,
     is_completed |-> FALSE,
     stop_percent |-> stop_percent,
     positions |-> <<>>,
     start_buying_price |-> start_buying_price]

\* The flag is left as it was.
completed_not_stored(p) == p

completed(p) == [p EXCEPT !.is_completed = TRUE]

is_completed(p) == p.is_completed

\* A price equal to start_buying_price does not count as reached.
Percentage_predictive_buying_above_start(p, price) ==
    IF is_completed(p) THEN None
    ELSE IF /\ p.start_buying_price # None
            /\ dec_le(price.value, p.start_buying_price[1])
    THEN None
    ELSE IF p.positions = <<>> THEN Some(p.investment)
    ELSE None

Percentage_predictive_buying(p, price) ==
    IF is_completed(p) THEN None
    ELSE IF /\ p.start_buying_price # None
            /\ dec_lt(price.value, p.start_buying_price[1])
    THEN None
    ELSE IF p.positions = <<>> THEN Some(p.investment)
    ELSE None

\* The closure of filter_map: whether the stored order e is suggested.
suggested(p, price, e) ==
    \/ dec_gt(price.value, dec_mul(e.price, dec_add(ONE, p.target_percent)))
    \/ /\ p.stop_percent # None
       /\ dec_lt(price.value, dec_mul(e.price, dec_add(ONE, p.stop_percent[1])))

RECURSIVE filter_suggested(_, _, _)
filter_suggested(p, price, i) ==
    IF i > Len(p.positions) THEN <<>>
    ELSE (IF suggested(p, price, p.positions[i]) THEN <<p.positions[i]>> ELSE <<>>)
            \o filter_suggested(p, price, i + 1)

Percentage_predictive_selling(p, price) ==
    IF is_completed(p) THEN None
    ELSE Some(filter_suggested(p, price, 1))

remove(orders, index) ==
    SubSeq(orders, 1, index - 1) \o SubSeq(orders, index + 1, Len(orders))

Percentage_update_position(p, side) ==
    IF side[1] = "Increase"
    THEN [p EXCEPT !.positions = Append(@, side[2])]
    ELSE LET found == {k \in 1..Len(p.positions) : p.positions[k] = side[2]}
         IN  IF found = {} THEN p
             ELSE completed([p EXCEPT !.positions =
                                remove(@, CHOOSE k \in found : \A j \in found : k <= j)])

(***************************************************************************)
(* The methods of one Percentage, called directly.                         *)
(***************************************************************************)
PercentageTargets == {dec(1, 2)}
PercentageStops == {None, Some(dec(3, 2))}
PercentageStarts == {None, Some(dec(99, 0)), Some(dec(101, 0))}

\* Entry 100 with target 0.01 and stop 0.03: 96 and 97 are at and below a fall
\* of 3%, 99 and 100 within it, 101 is a rise of exactly 1%, 101.5 more, 103
\* a rise of exactly 3%.
PercentagePrices ==
    {dec(96, 0), dec(97, 0), dec(99, 0), dec(100, 0), dec(101, 0),
     dec(1015, 1), dec(103, 0), dec(104, 0)}

PercentageOrders ==
    {Order_new(price, dec(100, 0), ONE, timestamp) :
        price \in {dec(100, 0), dec(99, 0)}, timestamp \in {0, 1}}

InitPercentage ==
    /\ percentage \in {Percentage_new(dec(100, 0), target, stop, start) :
                         target \in PercentageTargets, stop \in PercentageStops,
                         start \in PercentageStarts}
    /\ call = NoCall
    /\ no_limit
    /\ no_exchange
    /\ grid = None
    /\ copies = 0
    /\ treasurer = None
    /\ ticks = <<>>

PercentagePredictiveBuying(price) ==
    /\ call' = [op |-> "predictive_buying", price |-> price,
                ret |-> Percentage_predictive_buying(percentage, price)]
    /\ UNCHANGED <<limit, strategies>>

PercentagePredictiveSelling(price) ==
    /\ call' = [op |-> "predictive_selling", price |-> price,
                ret |-> Percentage_predictive_selling(percentage, price)]
    /\ UNCHANGED <<limit, strategies>>

\* The model stores at most MaxOrders orders.
PercentageUpdatePosition(side) ==
    /\ side[1] = "Increase" => Len(percentage.positions) < MaxOrders
    /\ percentage' = Percentage_update_position(percentage, side)
    /\ call' = [op |-> "update_position", side |-> side, ret |-> None]
    /\ UNCHANGED <<limit, grid, copies, treasurer, ticks, exchange>>

NextPercentage ==
    \/ \E price \in PercentagePrices :
        \/ PercentagePredictiveBuying(PriceSignal_new(price, 0))
        \/ PercentagePredictiveSelling(PriceSignal_new(price, 0))
    \/ \E order \in PercentageOrders :
        \/ PercentageUpdatePosition(Increase(order))
        \/ PercentageUpdatePosition(Decrease(order))

SpecPercentage == InitPercentage /\ [][NextPercentage]_vars

(***************************************************************************)
(* Properties of the Percentage.                                           *)
(***************************************************************************)
stored(p, order) == \E k \in 1..Len(p.positions) : p.positions[k] = order

removes_stored_order(c, p) ==
    /\ c.op = "update_position"
    /\ c.side[1] = "Decrease"
    /\ stored(p, c.side[2])

\* C17: the completed flag starts false, becomes true exactly in the step in
\* which a Decrease removes a stored order, and once true is true in every
\* later state whatever is called; while it is true predictive_buying and
\* predictive_selling return None for every price.
C17_OneShot ==
    /\ ~percentage.is_completed
    /\ [][/\ (~percentage.is_completed /\ percentage'.is_completed)
                => /\ removes_stored_order(call', percentage)
                   /\ Len(percentage'.positions) = Len(percentage.positions) - 1
          /\ removes_stored_order(call', percentage) => percentage'.is_completed
          /\ percentage.is_completed => percentage'.is_completed]_vars
    /\ []((percentage.is_completed
                /\ call.op \in {"predictive_buying", "predictive_selling"})
            => call.ret = None)

\* Completed with an order still stored whose target the price has passed:
\* predictive_selling returned None.
C17_Witness ==
    /\ percentage.is_completed
    /\ call.op = "predictive_selling"
    /\ call.ret = None
    /\ \E k \in 1..Len(percentage.positions) :
        dec_lt(dec_mul(percentage.positions[k].price,
                       dec_add(ONE, percentage.target_percent)),
               call.price.value)

\* C18: predictive_buying(price) returns Some(investment) exactly when the
\* strategy is not completed, no order is stored, and no start_buying_price is
\* configured or start_buying_price <= price; otherwise it returns None.
C18_PredictiveBuying ==
    call.op = "predictive_buying" =>
        LET buys == /\ ~percentage.is_completed
                    /\ Len(percentage.positions) = 0
                    /\ \/ percentage.start_buying_price = None
                       \/ dec_le(percentage.start_buying_price[1], call.price.value)
        IN  /\ buys => call.ret = Some(percentage.investment)
            /\ ~buys => call.ret = None

\* predictive_buying answered Some at the start_buying_price itself.
C18_Witness ==
    /\ call.op = "predictive_buying"
    /\ call.ret # None
    /\ percentage.start_buying_price # None
    /\ call.price.value = percentage.start_buying_price[1]

\* C19: predictive_selling suggests a stored order with entry price e only
\* when the price is above e * (1 + target_percent) or, with a stop_percent
\* configured, below e * (1 - stop_percent).
C19_SellTrigger ==
    (call.op = "predictive_selling" /\ call.ret # None) =>
        \A k \in 1..Len(call.ret[1]) :
            LET e == call.ret[1][k].price
            IN  \/ dec_gt(call.price.value,
                          dec_mul(e, dec_add(ONE, percentage.target_percent)))
                \/ /\ percentage.stop_percent # None
                   /\ dec_lt(call.price.value,
                             dec_mul(e, dec_sub(ONE, percentage.stop_percent[1])))

(***************************************************************************)
(* Spot: the quantities and amounts of one trading pair.                   *)
(***************************************************************************)
Spot_new(symbol, transaction_quantity_precision, holding_quantity_precision, amount_income_precision, buying_commission, selling_commission, minimum_transaction_amount) ==
    [symbol |-> symbol,
     transaction_quantity_precision |-> transaction_quantity_precision,
     holding_quantity_precision |-> holding_quantity_precision,
     amount_income_precision |-> amount_income_precision,
     buying_commission |-> buying_commission,
     selling_commission |-> selling_commission,
     minimum_transaction_amount |-> minimum_transaction_amount]

\* The commission is not taken off the quantity bought.
buying_quantity_without_commission(spot, quantity) ==
    round_dp(quantity, spot.holding_quantity_precision)

buying_quantity_with_commission(spot, quantity) ==
    round_dp(dec_mul(quantity, dec_sub(ONE, spot.buying_commission)),
             spot.holding_quantity_precision)

\* The quantity is rounded to the precision.
transaction_quantity_rounded(spot, quantity) ==
    round_dp(quantity, spot.transaction_quantity_precision)

transaction_quantity_with_precision(spot, quantity) ==
    trunc_with_scale(quantity, spot.transaction_quantity_precision)

selling_amount_with_commission(spot, amount) ==
    LET commission == round_dp(dec_mul(amount, spot.selling_commission),
                               spot.amount_income_precision)
    IN  dec_sub(amount, commission)

selling_income_amount(spot, price, quantity) == dec_mul(price, quantity)

buying_spent_amount(spot, price, quantity) == dec_mul(price, quantity)

is_allow_transaction(spot, price, quantity) ==
    dec_gt(dec_mul(price, quantity), spot.minimum_transaction_amount)

\* The second argument of buy is taken for the quantity to buy.
buying_quantity_is_amount(spot, price, amount) ==
    transaction_quantity_with_precision(spot, amount)

\* The quantity is rounded to the precision.
buying_quantity_by_amount_rounded(spot, price, amount) ==
    round_dp(dec_div(amount, price), spot.transaction_quantity_precision)

buying_quantity_by_amount(spot, price, amount) ==
    transaction_quantity_with_precision(spot, dec_div(amount, price))

btc_spot ==
    Spot_new("BTCUSDT", 5, 7, 8, dec(1, 3), dec(1, 3), dec(5, 0))

eth_spot ==
    Spot_new("ETHUSDT", 4, 7, 8, dec(1, 3), dec(1, 3), dec(5, 0))

(***************************************************************************)
(* SpotClient outside production: no order is placed, the trade is         *)
(* calculated.                                                             *)
(***************************************************************************)
\* The commission is not taken off the quantity reported.
calculator_buying_uncommissioned(spot, price, buying_quantity) ==
    [spent |-> buying_spent_amount(spot, price, buying_quantity),
     price |-> price,
     quantity |-> buying_quantity,
     quantity_after_commission |-> buying_quantity]

calculator_buying(spot, price, buying_quantity) ==
    [spent |-> buying_spent_amount(spot, price, buying_quantity),
     price |-> price,
     quantity |-> buying_quantity,
     quantity_after_commission |->
        buying_quantity_with_commission(spot, buying_quantity)]

calculator_selling(spot, price, selling_quantity) ==
    LET selling_income == selling_income_amount(spot, price, selling_quantity)
    IN  [price |-> price,
         quantity |-> selling_quantity,
         income |-> selling_income,
         income_after_commission |->
            selling_amount_with_commission(spot, selling_income)]

\* SpotClientError: the kinds are Price, Trading and Decimal.
Trading(message) == [kind |-> "Trading", message |-> message]

SpotClient_is_allow_transaction(spot, price, quantity) ==
    IF ~is_allow_transaction(spot, price, quantity)
    THEN Err(Trading("Minimum transaction amount not reached"))
    ELSE Ok(<<>>)

SpotClient_buy(spot, price, amount) ==
    LET buying_quantity == buying_quantity_by_amount(spot, price, amount)
        allowed == SpotClient_is_allow_transaction(spot, price, buying_quantity)
    IN  IF allowed[1] = "Err" THEN allowed
        ELSE Ok(calculator_buying(spot, price, buying_quantity))

\* The quantity is sold as given.
SpotClient_sell_untruncated(spot, price, quantity) ==
    LET allowed == SpotClient_is_allow_transaction(spot, price, quantity)
    IN  IF allowed[1] = "Err" THEN allowed
        ELSE Ok(calculator_selling(spot, price, quantity))

SpotClient_sell(spot, price, quantity) ==
    LET selling_quantity == transaction_quantity_with_precision(spot, quantity)
        allowed == SpotClient_is_allow_transaction(spot, price, selling_quantity)
    IN  IF allowed[1] = "Err" THEN allowed
        ELSE Ok(calculator_selling(spot, price, selling_quantity))

(***************************************************************************)
(* Prosperity: the ledger.                                                 *)
(***************************************************************************)
Prosperity_new(start) ==
    [balance |-> IF start = None THEN ZERO ELSE start[1]]

transfer_in(t, amount) == [t EXCEPT !.balance = dec_add(@, amount)]

transfer_out(t, amount) == [t EXCEPT !.balance = dec_sub(@, amount)]

balance(t) == t.balance

(***************************************************************************)
(* The driver of a Percentage: one tick sells what predictive_selling      *)
(* suggests, then buys what predictive_buying suggests; each realised      *)
(* trade is recorded in the ledger and in the strategy.  A failed exchange *)
(* call ends the tick and keeps what was done before it.                   *)
(***************************************************************************)
MaxTicks == 6

RECURSIVE Master_trap_selling(_, _, _, _)
Master_trap_selling(st, spot, price, orders) ==
    IF orders = <<>> THEN st
    ELSE LET order == Head(orders)
             selling == SpotClient_sell(spot, price.value, order.quantity)
         IN  IF selling[1] = "Err" THEN [st EXCEPT !.result = selling]
             ELSE Master_trap_selling(
                    [st EXCEPT
                        !.treasurer = transfer_in(@, selling[2].income_after_commission),
                        !.strategy = Percentage_update_position(@, Decrease(order)),
                        !.trades = Append(@, [side |-> "sell",
                                              price |-> selling[2].price,
                                              quantity |-> selling[2].quantity])],
                    spot, price, Tail(orders))

Master_trap_buying(st, spot, price) ==
    LET amount == Percentage_predictive_buying(st.strategy, price)
    IN  IF st.result[1] = "Err" \/ amount = None THEN st
        ELSE LET buying == SpotClient_buy(spot, price.value, amount[1])
             IN  IF buying[1] = "Err" THEN [st EXCEPT !.result = buying]
                 ELSE [st EXCEPT
                        !.treasurer = transfer_out(@, buying[2].spent),
                        !.strategy = Percentage_update_position(@,
                            Increase(Order_new(buying[2].price, buying[2].spent,
                                               buying[2].quantity_after_commission,
                                               price.timestamp))),
                        !.trades = Append(@, [side |-> "buy",
                                              price |-> buying[2].price,
                                              quantity |-> buying[2].quantity])]

Master_trap(spot, price, strategy, ledger) ==
    LET st == [strategy |-> strategy, treasurer |-> ledger,
               trades |-> <<>>, result |-> Ok(<<>>)]
        orders == Percentage_predictive_selling(strategy, price)
        sold == IF orders = None THEN st
                ELSE Master_trap_selling(st, spot, price, orders[1])
    IN  Master_trap_buying(sold, spot, price)

predict_price_one ==
    <<dec(100, 0), dec(101, 0), dec(1015, 1), dec(1023, 1), dec(1009, 1),
      dec(9958, 2)>>

predict_price_two ==
    <<dec(100, 0), dec(9923, 2), dec(9852, 2), dec(9745, 2), dec(9667, 2),
      dec(9323, 2), dec(9295, 2), dec(9094, 2)>>

\* The k-th tick is the k-th price of either series.
TickPrices(k) ==
    {series[k] : series \in {x \in {predict_price_one, predict_price_two} :
                                k <= Len(x)}}

\* An investment of 4 buys less than the minimum transaction amount.
TrapInvestments == {dec(100, 0), dec(4, 0)}

InitTrap ==
    /\ percentage \in {Percentage_new(investment, target, stop, None) :
                         investment \in TrapInvestments,
                         target \in PercentageTargets, stop \in PercentageStops}
    /\ treasurer = Prosperity_new(None)
    /\ ticks = <<>>
    /\ call = NoCall
    /\ no_limit
    /\ no_exchange
    /\ grid = None
    /\ copies = 0

MasterTrap(price) ==
    /\ Len(ticks) < MaxTicks
    /\ LET signal == PriceSignal_new(price, Len(ticks) + 1)
           st == Master_trap(btc_spot, signal, percentage, treasurer)
       IN  /\ percentage' = st.strategy
           /\ treasurer' = st.treasurer
           /\ ticks' = Append(ticks, [price |-> price, trades |-> st.trades])
           /\ call' = [op |-> "trap", price |-> signal, ret |-> st.result]
    /\ UNCHANGED <<limit, grid, copies, exchange>>

NextTrap == \E price \in TickPrices(Len(ticks) + 1) : MasterTrap(price)

SpecTrap == InitTrap /\ [][NextTrap]_vars

(***************************************************************************)
(* Properties of a driven Percentage.                                      *)
(***************************************************************************)
RECURSIVE trades_until(_)
trades_until(k) ==
    IF k = 0 THEN <<>> ELSE trades_until(k - 1) \o ticks[k].trades

example ==
    /\ percentage.investment = dec(100, 0)
    /\ percentage.target_percent = dec(1, 2)
    /\ percentage.stop_percent = None
    /\ percentage.start_buying_price = None
    /\ Len(ticks) = Len(predict_price_one)
    /\ \A k \in 1..Len(ticks) : ticks[k].price = predict_price_one[k]

\* C20: investment 100, target 0.01, no stop, no start price, the BTC spot and
\* a ledger starting at 0: after the ticks 100, 101, 101.5, 102.3, 100.9,
\* 99.58 the strategy is completed and stores no order, the only trades are a
\* buy at 100 (first tick) and a sell at 101.5 (third tick), and the ledger
\* balance is 1.29710150.
C20_PercentageExample ==
    example =>
        /\ is_completed(percentage)
        /\ percentage.positions = <<>>
        /\ Len(trades_until(Len(ticks))) = 2
        /\ Len(ticks[1].trades) = 1
        /\ ticks[1].trades[1].side = "buy"
        /\ ticks[1].trades[1].price = dec(100, 0)
        /\ ticks[2].trades = <<>>
        /\ Len(ticks[3].trades) = 1
        /\ ticks[3].trades[1].side = "sell"
        /\ ticks[3].trades[1].price = dec(1015, 1)
        /\ balance(treasurer) = dec(129710150, 8)

\* The six ticks of the example have been driven and the last one, with the
\* strategy completed, traded nothing.
C20_Witness ==
    /\ example
    /\ call.op = "trap"
    /\ call.price.value = dec(9958, 2)
    /\ ticks[6].trades = <<>>
    /\ dec_gt(balance(treasurer), ZERO)

(***************************************************************************)
(* Range over decimals: the methods of one Range, called directly.         *)
(***************************************************************************)
Range(a, b) == <<a, b>>

Range_high(r) == IF dec_gt(r[1], r[2]) THEN r[1] ELSE r[2]

\* The first end, whichever is lower.
Range_first(r) == r[1]

Range_low(r) == IF dec_lt(r[1], r[2]) THEN r[1] ELSE r[2]

Range_length(r) == dec_sub(Range_high(r), Range_low(r))

Range_is_within_inclusive(r, value) ==
    dec_le(Range_low(r), value) /\ dec_le(value, Range_high(r))

Range_is_within_exclusive(r, value) ==
    dec_gt(value, Range_low(r)) /\ dec_lt(value, Range_high(r))

\* Negative, zero, fractional and whole ends; each also occurs as a value.
RangeValues ==
    {dec(-15, 1), ZERO, dec(5, 1), ONE, dec(105, 2), TWO, dec(100, 0)}

InitRange ==
    /\ range \in {Range(a, b) : a \in RangeValues, b \in RangeValues}
    /\ call = NoCall
    /\ no_limit
    /\ grid = None
    /\ copies = 0
    /\ percentage = None
    /\ treasurer = None
    /\ ticks = <<>>
    /\ client = None
    /\ placed = <<>>
    /\ transfers = <<>>
    /\ mutex = 0

range_only == <<limit, grid, copies, percentage, treasurer, ticks, range,
                client, placed, transfers, mutex>>

RangeLow ==
    /\ call' = [op |-> "low", value |-> None, ret |-> Range_low(range)]
    /\ UNCHANGED range_only

RangeHigh ==
    /\ call' = [op |-> "high", value |-> None, ret |-> Range_high(range)]
    /\ UNCHANGED range_only

RangeLength ==
    /\ call' = [op |-> "length", value |-> None, ret |-> Range_length(range)]
    /\ UNCHANGED range_only

RangeIsWithinInclusive(value) ==
    /\ call' = [op |-> "is_within_inclusive", value |-> value,
                ret |-> Range_is_within_inclusive(range, value)]
    /\ UNCHANGED range_only

RangeIsWithinExclusive(value) ==
    /\ call' = [op |-> "is_within_exclusive", value |-> value,
                ret |-> Range_is_within_exclusive(range, value)]
    /\ UNCHANGED range_only

NextRange ==
    \/ RangeLow
    \/ RangeHigh
    \/ RangeLength
    \/ \E value \in RangeValues :
        \/ RangeIsWithinInclusive(value)
        \/ RangeIsWithinExclusive(value)

SpecRange == InitRange /\ [][NextRange]_vars

(***************************************************************************)
(* Properties of Range.                                                    *)
(***************************************************************************)
swapped(r) == Range(r[2], r[1])

\* C21: a Range and the Range with its ends swapped answer low, high, length,
\* is_within_inclusive and is_within_exclusive alike; low <= high, length is
\* high - low and not negative, and both ends are within the Range
\* inclusively, also when the ends are equal.
C21_RangeOrderIndependent ==
    /\ dec_le(Range_low(range), Range_high(range))
    /\ dec_le(ZERO, Range_length(range))
    /\ Range_is_within_inclusive(range, Range_low(range))
    /\ Range_is_within_inclusive(range, Range_high(range))
    /\ call.op = "low" => call.ret = Range_low(swapped(range))
    /\ call.op = "high" => call.ret = Range_high(swapped(range))
    /\ call.op = "length" =>
        /\ call.ret = Range_length(swapped(range))
        /\ call.ret = dec_sub(Range_high(range), Range_low(range))
        /\ dec_add(Range_low(range), call.ret) = Range_high(range)
    /\ call.op = "is_within_inclusive" =>
        call.ret = Range_is_within_inclusive(swapped(range), call.value)
    /\ call.op = "is_within_exclusive" =>
        call.ret = Range_is_within_exclusive(swapped(range), call.value)

\* A Range given with its higher end first was asked for its low end.
C21_Witness ==
    /\ dec_gt(range[1], range[2])
    /\ call.op = "low"
    /\ call.ret = range[2]

(***************************************************************************)
(* Spot: the methods of one Spot, called directly.                         *)
(***************************************************************************)
\* A pair traded without commission, next to the two pairs of the tests.
free_spot == Spot_new("BTCUSDT", 5, 7, 8, ZERO, ZERO, dec(5, 0))

SpotInputs == {btc_spot, eth_spot, free_spot}

\* Quantities and amounts with fewer, as many and more decimal places than
\* the precisions, from zero up.
SpotQuantities ==
    {ZERO, dec(1, 6), dec(1, 5), dec(5, 5), dec(8, 4), dec(8561, 7),
     dec(2372, 6), dec(25, 4), dec(985231, 8), dec(99999, 5), dec(999999, 6),
     ONE, dec(3154871, 6), dec(127319365, 7), dec(164650161, 7),
     dec(658308373, 7)}

SpotClient_new(spot, option) == [spot |-> spot, option |-> option]

InitSpot ==
    /\ client \in {SpotClient_new(spot, None) : spot \in SpotInputs}
    /\ call = NoCall
    /\ no_limit
    /\ grid = None
    /\ copies = 0
    /\ percentage = None
    /\ treasurer = None
    /\ ticks = <<>>
    /\ range = None
    /\ placed = <<>>
    /\ transfers = <<>>
    /\ mutex = 0

TransactionQuantityWithPrecision(quantity) ==
    /\ call' = [op |-> "transaction_quantity_with_precision", arg |-> quantity,
                ret |-> transaction_quantity_with_precision(client.spot, quantity)]
    /\ UNCHANGED <<limit, strategies>>

BuyingQuantityWithCommission(quantity) ==
    /\ call' = [op |-> "buying_quantity_with_commission", arg |-> quantity,
                ret |-> buying_quantity_with_commission(client.spot, quantity)]
    /\ UNCHANGED <<limit, strategies>>

SellingAmountWithCommission(amount) ==
    /\ call' = [op |-> "selling_amount_with_commission", arg |-> amount,
                ret |-> selling_amount_with_commission(client.spot, amount)]
    /\ UNCHANGED <<limit, strategies>>

NextSpot ==
    \E x \in SpotQuantities :
        \/ TransactionQuantityWithPrecision(x)
        \/ BuyingQuantityWithCommission(x)
        \/ SellingAmountWithCommission(x)

SpecSpot == InitSpot /\ [][NextSpot]_vars

(***************************************************************************)
(* Properties of Spot.                                                     *)
(***************************************************************************)
\* 10^-p
unit(p) == dec(1, p)

\* C22: for q >= 0, transaction_quantity_with_precision(q) is a multiple r of
\* 10^-p, p the transaction_quantity_precision, with r <= q < r + 10^-p, and
\* applying the function to r returns r.
C22_TruncatesTowardZero ==
    call.op = "transaction_quantity_with_precision" =>
        LET p == client.spot.transaction_quantity_precision
            q == call.arg
            r == call.ret
        IN  /\ r.s <= p
            /\ dec_le(ZERO, r)
            /\ dec_le(r, q)
            /\ dec_lt(q, dec_add(r, unit(p)))
            /\ transaction_quantity_with_precision(client.spot, r) = r

\* A quantity whose dropped digits are more than half a unit: rounding would
\* have gone up.
C22_Witness ==
    /\ call.op = "transaction_quantity_with_precision"
    /\ call.ret # call.arg
    /\ dec_lt(dec_add(call.ret, dec_mul(unit(client.spot.transaction_quantity_precision),
                                        dec(5, 1))),
              call.arg)

\* C23: for x >= 0 and a commission rate in [0, 1),
\* selling_amount_with_commission(x) <= x and
\* buying_quantity_with_commission(x) <= x, and for x > 0 a non-zero
\* commission gives a strictly smaller result.
C23_CommissionMonotone ==
    /\ call.op = "buying_quantity_with_commission" =>
        /\ dec_le(call.ret, call.arg)
        /\ (dec_gt(call.arg, ZERO) /\ client.spot.buying_commission # ZERO)
            => dec_lt(call.ret, call.arg)
    /\ call.op = "selling_amount_with_commission" =>
        /\ dec_le(call.ret, call.arg)
        /\ (dec_gt(call.arg, ZERO) /\ client.spot.selling_commission # ZERO)
            => dec_lt(call.ret, call.arg)

(***************************************************************************)
(* SpotClient: buy and sell, called one after another.  In production an   *)
(* accepted trade is placed at the exchange as a market order, and the     *)
(* exchange answers or fails.                                              *)
(***************************************************************************)
MaxPlaced == 1

SpotClientOption(production) == [is_production |-> production]

\* Every client places orders.
is_production_always(c) == TRUE

is_production(c) ==
    IF c.option # None THEN c.option[1].is_production ELSE FALSE

\* The request handed to place_order; its quantity, converted to a float, is
\* left out.
OrderRequest(spot, side) ==
    [symbol |-> spot.symbol, side |-> side, order_type |-> "Market"]

ClientOptions ==
    {None, Some(SpotClientOption(FALSE)), Some(SpotClientOption(TRUE))}

ClientPrices ==
    {dec(4314542, 2), dec(259604, 2), dec(429911, 1), dec(265201, 2),
     dec(25, 1), dec(100, 0)}

\* 0.0015 and 64.71813 are a quantity at 43145.42 and what it costs; 5 at 2.5
\* buys exactly the minimum transaction amount.
ClientAmounts ==
    {ZERO, dec(15, 4), dec(5, 0), dec(6471813, 5), dec(500, 0), dec(6005, 1)}

\* 2 at 2.5 sells for exactly the minimum transaction amount.
ClientQuantities ==
    {dec(349, 5), dec(349135, 8), dec(1056, 4), dec(105136, 6), TWO}

\* What the exchange answers to place_order.
Replies == {Ok(<<>>), Err("rejected")}

InitClient ==
    /\ client \in {SpotClient_new(spot, option) :
                     spot \in {btc_spot, eth_spot}, option \in ClientOptions}
    /\ placed = <<>>
    /\ call = NoCall
    /\ no_limit
    /\ grid = None
    /\ copies = 0
    /\ percentage = None
    /\ treasurer = None
    /\ ticks = <<>>
    /\ range = None
    /\ transfers = <<>>
    /\ mutex = 0

client_only == <<limit, grid, copies, percentage, treasurer, ticks, range,
                 client, transfers, mutex>>

\* One call of buy or sell: computed is what the call returns unless an order
\* is placed and fails.
SpotClient_call(op, side, price, arg, computed, reply) ==
    LET places == computed[1] = "Ok" /\ is_production(client)
    IN  /\ places => Len(placed) < MaxPlaced
        /\ placed' = IF places THEN Append(placed, OrderRequest(client.spot, side))
                     ELSE placed
        /\ call' = [op |-> op, price |-> price, arg |-> arg,
                    reply |-> IF places THEN reply ELSE None,
                    ret |-> IF places /\ reply[1] = "Err"
                            THEN Err(Trading(reply[2]))
                            ELSE computed]
        /\ UNCHANGED client_only

ClientBuy(price, amount, reply) ==
    SpotClient_call("buy", "Buy", price, amount,
                    SpotClient_buy(client.spot, price, amount), reply)

ClientSell(price, quantity, reply) ==
    SpotClient_call("sell", "Sell", price, quantity,
                    SpotClient_sell(client.spot, price, quantity), reply)

NextClient ==
    \E price \in ClientPrices, reply \in Replies :
        \/ \E amount \in ClientAmounts : ClientBuy(price, amount, reply)
        \/ \E quantity \in ClientQuantities : ClientSell(price, quantity, reply)

SpecClient == InitClient /\ [][NextClient]_vars

(***************************************************************************)
(* Properties of SpotClient.                                               *)
(***************************************************************************)
MinimumNotReached == "Minimum transaction amount not reached"

\* The quantity a call trades, and what it is worth.
traded(c) ==
    IF c.op = "buy" THEN buying_quantity_by_amount(client.spot, c.price, c.arg)
    ELSE transaction_quantity_with_precision(client.spot, c.arg)

notional(c) == dec_mul(c.price, traded(c))

guard_passes(c) == dec_gt(notional(c), client.spot.minimum_transaction_amount)

\* C24: buy and sell return an error of the distinct kind MinimumNotReached
\* and place no order whenever price * (truncated quantity) is not strictly
\* greater than minimum_transaction_amount; when it is, the guard passes.
C24_MinimumGuard ==
    call.op \in {"buy", "sell"} =>
        /\ ~guard_passes(call) =>
            /\ call.ret[1] = "Err"
            /\ call.reply = None
            /\ call.ret[2].kind = "MinimumNotReached"
        /\ guard_passes(call) =>
            ~(call.ret[1] = "Err" /\ call.ret[2].message = MinimumNotReached)

example_spot ==
    /\ client.spot.transaction_quantity_precision = 5
    /\ client.spot.holding_quantity_precision = 7
    /\ client.spot.buying_commission = dec(1, 3)

C26_BuyResult ==
    (call.op = "buy" /\ guard_passes(call) /\ call.reply # Err("rejected")) =>
        LET spot == client.spot
            quantity == trunc_with_scale(dec_div(call.arg, call.price),
                                         spot.transaction_quantity_precision)
        IN  /\ call.ret[1] = "Ok"
            /\ call.ret[2].quantity = quantity
            /\ call.ret[2].spent = dec_mul(call.price, quantity)
            /\ call.ret[2].quantity_after_commission =
                    round_dp(dec_mul(quantity, dec_sub(ONE, spot.buying_commission)),
                             spot.holding_quantity_precision)
            /\ call.ret[2].price = call.price
            /\ (spot = btc_spot /\ call.price = dec(4314542, 2)
                    /\ call.arg = dec(500, 0))
                => /\ call.ret[2].quantity = dec(1158, 5)
                   /\ call.ret[2].spent = dec_add(dec(499, 0), dec(6239636, 7))
                   /\ call.ret[2].quantity_after_commission = dec(115684, 7)
            /\ (spot = eth_spot /\ call.price = dec(259604, 2)
                    /\ call.arg = dec(6005, 1))
                => /\ call.ret[2].quantity = dec(2313, 4)
                   /\ call.ret[2].spent = dec(600464052, 6)
                   /\ call.ret[2].quantity_after_commission = dec(2310687, 7)

\* buy(43145.42, 500) on the BTC spot returned a result.
C26_Witness ==
    /\ client.spot = btc_spot
    /\ call.op = "buy"
    /\ call.price = dec(4314542, 2)
    /\ call.arg = dec(500, 0)
    /\ call.ret[1] = "Ok"
    /\ call.ret[2].quantity_after_commission # call.ret[2].quantity

\* C27: when the minimum guard passes, sell(price, quantity) sells the
\* quantity truncated to transaction_quantity_precision places, never more
\* than given, for income = price * sold quantity and income_after_commission
\* = income - (income * selling_commission rounded to amount_income_precision
\* places); a quantity and its truncation give the same result, so
\* sell(42991.10, 0.00349135) on the BTC spot reports 0.00349, 150.038939 and
\* 149.88890006.
C27_SellResult ==
    (call.op = "sell" /\ guard_passes(call) /\ call.reply # Err("rejected")) =>
        LET spot == client.spot
            sold == trunc_with_scale(call.arg, spot.transaction_quantity_precision)
            income == dec_mul(call.price, sold)
        IN  /\ call.ret[1] = "Ok"
            /\ call.ret[2].quantity = sold
            /\ dec_le(sold, call.arg)
            /\ call.ret[2].price = call.price
            /\ call.ret[2].income = income
            /\ call.ret[2].income_after_commission =
                    dec_sub(income, round_dp(dec_mul(income, spot.selling_commission),
                                             spot.amount_income_precision))
            /\ call.ret = SpotClient_sell(spot, call.price, sold)
            /\ (spot = btc_spot /\ call.price = dec(429911, 1)
                    /\ call.arg \in {dec(349, 5), dec(349135, 8)})
                => /\ call.ret[2].quantity = dec(349, 5)
                   /\ call.ret[2].income = dec(150038939, 6)
                   /\ call.ret[2].income_after_commission =
                        dec_add(dec(149, 0), dec(88890006, 8))

\* sell(42991.10, 0.00349135) on the BTC spot returned a result.
C27_Witness ==
    /\ client.spot = btc_spot
    /\ call.op = "sell"
    /\ call.price = dec(429911, 1)
    /\ call.arg = dec(349135, 8)
    /\ call.ret[1] = "Ok"

\* C28: a successful buy(price, amount) reports spent <= amount with amount -
\* spent less than price * 10^-transaction_quantity_precision, and a quantity
\* after commission no greater than the quantity bought.
C28_NoOverCommitment ==
    (call.op = "buy" /\ call.ret[1] = "Ok") =>
        /\ dec_le(call.ret[2].spent, call.arg)
        /\ dec_lt(dec_sub(call.arg, call.ret[2].spent),
                  dec_mul(call.price, unit(client.spot.transaction_quantity_precision)))
        /\ dec_le(call.ret[2].quantity_after_commission, call.ret[2].quantity)

\* A buy that spent less than the amount, the next unit of quantity costing
\* more than what is left.
C28_Witness ==
    /\ call.op = "buy"
    /\ call.ret[1] = "Ok"
    /\ dec_lt(call.ret[2].spent, call.arg)
    /\ dec_gt(dec_add(call.ret[2].spent,
                      dec_mul(call.price, unit(client.spot.transaction_quantity_precision))),
              call.arg)

\* C29: an order is placed only by a buy or sell of a client built with an
\* option whose is_production is true, and only when the minimum guard has
\* passed; a client with no option or is_production false never places one
\* and returns the computed result; in production a failed placement makes
\* the call return an error.
C29_ProductionGate ==
    /\ [][placed' # placed =>
            /\ client.option # None
            /\ client.option[1].is_production
            /\ call'.op \in {"buy", "sell"}
            /\ guard_passes(call')
            /\ Len(placed') = Len(placed) + 1
            /\ SubSeq(placed', 1, Len(placed)) = placed
            /\ placed'[Len(placed')].side = (IF call'.op = "buy" THEN "Buy" ELSE "Sell")]_vars
    /\ []((client.option = None \/ ~client.option[1].is_production) =>
            /\ placed = <<>>
            /\ call.op = "buy" =>
                call.ret = SpotClient_buy(client.spot, call.price, call.arg)
            /\ call.op = "sell" =>
                call.ret = SpotClient_sell(client.spot, call.price, call.arg)
            /\ (call.op \in {"buy", "sell"} /\ guard_passes(call)) => call.ret[1] = "Ok")
    /\ []((call.op \in {"buy", "sell"} /\ call.reply = Err("rejected")) =>
            call.ret[1] = "Err")

\* A client in production placed an order that failed, and the call returned
\* an error.
C29_Witness ==
    /\ client.option = Some(SpotClientOption(TRUE))
    /\ placed # <<>>
    /\ call.reply = Err("rejected")
    /\ call.ret[1] = "Err"

(***************************************************************************)
(* Prosperity called by concurrent tasks.  transfer_in and transfer_out    *)
(* await the lock of balance, read the balance, write the new balance, and *)
(* release the lock on return; balance awaits the lock, copies the balance *)
(* and releases the lock.                                                  *)
(***************************************************************************)
NumCallers == 2
MaxTransfers == 3

Callers == 1..NumCallers

LedgerAmounts == {dec(15, 1), dec(100, 0)}
LedgerStarts == {None, Some(dec(10, 0))}

Waiting == [pc |-> "idle", op |-> "none", amount |-> ZERO, read |-> ZERO]

\* The lock is given whoever holds it.
acquire_unguarded(t) == TRUE

\* balance.lock().await returns once no task holds the lock.
acquire(t) == mutex = 0

\* start is the argument of Prosperity::new; received, paid and calls sum up
\* the transfers that have returned.
InitLedger ==
    /\ \E start \in LedgerStarts :
        /\ treasurer = Prosperity_new(start)
        /\ transfers = [task |-> [t \in Callers |-> Waiting], start |-> start,
                        received |-> ZERO, paid |-> ZERO, calls |-> 0]
    /\ mutex = 0
    /\ call = NoCall
    /\ no_limit
    /\ grid = None
    /\ copies = 0
    /\ percentage = None
    /\ ticks = <<>>
    /\ range = None
    /\ client = None
    /\ placed = <<>>

ledger_only == <<limit, grid, copies, percentage, ticks, range, client, placed>>

LedgerCall(t, op, amount) ==
    /\ transfers.task[t].pc = "idle"
    /\ op # "balance" =>
        transfers.calls + Cardinality({u \in Callers :
            transfers.task[u].op \in {"transfer_in", "transfer_out"}}) < MaxTransfers
    /\ transfers' = [transfers EXCEPT !.task[t] =
                        [pc |-> "lock", op |-> op, amount |-> amount, read |-> ZERO]]
    /\ UNCHANGED <<call, treasurer, mutex, ledger_only>>

LedgerLock(t) ==
    /\ transfers.task[t].pc = "lock"
    /\ acquire(t)
    /\ mutex' = t
    /\ transfers' = [transfers EXCEPT !.task[t].pc = "read"]
    /\ UNCHANGED <<call, treasurer, ledger_only>>

LedgerRead(t) ==
    /\ transfers.task[t].pc = "read"
    /\ IF transfers.task[t].op = "balance"
       THEN /\ call' = [op |-> "balance", task |-> t, ret |-> balance(treasurer)]
            /\ mutex' = 0
            /\ transfers' = [transfers EXCEPT !.task[t] = Waiting]
       ELSE /\ transfers' = [transfers EXCEPT !.task[t].read = treasurer.balance,
                                              !.task[t].pc = "write"]
            /\ UNCHANGED <<call, mutex>>
    /\ UNCHANGED <<treasurer, ledger_only>>

LedgerWrite(t) ==
    LET mine == transfers.task[t]
        seen == [treasurer EXCEPT !.balance = mine.read]
    IN  /\ mine.pc = "write"
        /\ treasurer' = IF mine.op = "transfer_in"
                        THEN transfer_in(seen, mine.amount)
                        ELSE transfer_out(seen, mine.amount)
        /\ mutex' = 0
        /\ transfers' = [transfers EXCEPT
                            !.task[t] = Waiting,
                            !.calls = @ + 1,
                            !.received = IF mine.op = "transfer_in"
                                         THEN dec_add(@, mine.amount) ELSE @,
                            !.paid = IF mine.op = "transfer_out"
                                     THEN dec_add(@, mine.amount) ELSE @]
        /\ UNCHANGED <<call, ledger_only>>

NextLedger ==
    \E t \in Callers :
        \/ \E amount \in LedgerAmounts :
            \/ LedgerCall(t, "transfer_in", amount)
            \/ LedgerCall(t, "transfer_out", amount)
        \/ LedgerCall(t, "balance", ZERO)
        \/ LedgerLock(t)
        \/ LedgerRead(t)
        \/ LedgerWrite(t)

SpecLedger == InitLedger /\ [][NextLedger]_vars

(***************************************************************************)
(* Properties of the ledger.                                               *)
(***************************************************************************)
initial_balance == IF transfers.start = None THEN ZERO ELSE transfers.start[1]

\* C30: whatever the interleaving of the calls, the balance is the initial
\* balance (0 when none was given) plus the transfer_in amounts minus the
\* transfer_out amounts of the calls that have returned, negative if more was
\* paid; balance() returns it and leaves it as it is.
C30_LedgerBalance ==
    /\ [](treasurer.balance =
            dec_sub(dec_add(initial_balance, transfers.received), transfers.paid))
    /\ [][(call' # call) =>
            /\ call'.op = "balance"
            /\ call'.ret = treasurer.balance
            /\ treasurer' = treasurer]_vars

\* Two transfers overlapped, one waiting for the lock while the other was
\* between its read and its write, and a third has left the balance negative.
C30_Witness ==
    /\ dec_lt(treasurer.balance, ZERO)
    /\ transfers.calls >= 1
    /\ \E t \in Callers, u \in Callers :
        /\ transfers.task[t].pc = "write"
        /\ transfers.task[u].pc = "lock"
        /\ transfers.task[u].op # "balance"

(***************************************************************************)
(* Sequential ticks: counters, effects of a trade, a failed price fetch.   *)
(***************************************************************************)
\* The successful calls of operation op that tick t issued for position i.
ok_events(t, i, op) ==
    {k \in exchange_events(t) :
        t.events[k].pos = i /\ t.events[k].op = op /\ IsOk(t.events[k].ret)}

\* C31: the counters start at 0, and every tick raises buying_count of each
\* position by the number of successful buy calls it issued for that position
\* and selling_count by the number of successful sell calls, each 0 or 1; so
\* each counter is the number of successful calls so far and never decreases.
C31_CountersMatchCalls ==
    /\ \A i \in Indexes :
        positions[i].buying_count = 0 /\ positions[i].selling_count = 0
    /\ [][\A i \in Indexes :
            /\ positions'[i].buying_count =
                  positions[i].buying_count + Cardinality(ok_events(tick', i, "buy"))
            /\ positions'[i].selling_count =
                  positions[i].selling_count + Cardinality(ok_events(tick', i, "sell"))
            /\ Cardinality(ok_events(tick', i, "buy")
                            \cup ok_events(tick', i, "sell")) <= 1]_vars

\* A position has bought, sold and bought again.
C31_Witness ==
    \E i \in Indexes :
        /\ positions[i].buying_count = 2
        /\ positions[i].selling_count = 1
        /\ ok_events(tick, i, "buy") # {}

\* C32: a tick leaves a position it sold for with no holding and a position
\* it bought for with the quantity the buy returned; a position it traded
\* nothing for keeps its holding and counters, and every position keeps its
\* investment and its two ranges.
C32_TradeEffect ==
    [][\A i \in Indexes :
        /\ ok_events(tick', i, "sell") # {} => positions'[i].position = None
        /\ \A k \in ok_events(tick', i, "buy") :
              positions'[i].position = Some(tick'.events[k].ret[2])
        /\ ok_events(tick', i, "sell") \cup ok_events(tick', i, "buy") = {}
              => positions'[i] = positions[i]
        /\ positions'[i].investment = positions[i].investment
        /\ positions'[i].buying = positions[i].buying
        /\ positions'[i].selling = positions[i].selling]_vars

\* A tick sold for position 1 and bought a positive quantity for position 2.
C32_Witness ==
    /\ ok_events(tick, 1, "sell") # {}
    /\ positions[1].position = None
    /\ ok_events(tick, 2, "buy") # {}
    /\ positive(positions[2].position)

\* C33: a tick whose price fetch fails returns that error, issues no buy or
\* sell call and leaves every position as it was.
C33_PriceFailure ==
    [][(ticked(tick') /\ ~IsOk(fetched(tick'))) =>
            /\ tick'.ret = fetched(tick')
            /\ Len(tick'.events) = 1
            /\ positions' = positions]_vars

\* The price fetch failed in a state where a position that has traded holds a
\* quantity.
C33_Witness ==
    /\ ticked(tick)
    /\ ~IsOk(fetched(tick))
    /\ tick.ret = fetched(tick)
    /\ \E i \in Indexes :
        positive(positions[i].position) /\ positions[i].buying_count > 0

(***************************************************************************)
(* Sequential ticks on positions that are all created flat.                *)
(***************************************************************************)
InitFlat ==
    /\ Init
    /\ \A i \in Indexes : flat(positions[i].position)

SpecFlat == InitFlat /\ [][Next]_vars

difference(lp) == lp.buying_count - lp.selling_count

\* What the difference of the counters exceeds 1 (holding) or 0 (flat) by.
excess(lp) == difference(lp) - (IF positive(lp.position) THEN 1 ELSE 0)

\* C39: for a position created flat, buying_count - selling_count is 1 when
\* the position holds a positive quantity and 0 when it is flat, whatever
\* quantity the buy returns, zero included.
C39_CounterHolding ==
    \A i \in Indexes :
        /\ positive(positions[i].position) => difference(positions[i]) = 1
        /\ flat(positions[i].position) => difference(positions[i]) = 0

\* C39, as the code has it: for a position created flat, buying_count -
\* selling_count is 1 when it holds a positive quantity and 0 when it is flat
\* as long as every successful buy returned a positive quantity; a successful
\* buy that returns zero is counted and leaves the position flat, so the
\* difference exceeds that value by the number of buys that returned zero.
C39_CounterHoldingPositiveBuys ==
    /\ \A i \in Indexes : excess(positions[i]) = 0
    /\ [][\A i \in Indexes :
            excess(positions'[i]) = excess(positions[i])
                + Cardinality({k \in ok_events(tick', i, "buy") :
                                 tick'.events[k].ret[2] = 0})]_vars
    /\ [](\A i \in Indexes : excess(positions[i]) >= 0)

\* A position created flat is flat after two buys, the last returning zero.
C39_Witness ==
    \E i \in Indexes :
        /\ positions[i].position = Some(0)
        /\ positions[i].buying_count = 2
        /\ positions[i].selling_count = 0

(***************************************************************************)
(* The bands of the Grid and the prices derived from them.                  *)
(***************************************************************************)
accepted_buying(g, price) ==
    {k \in 1..Len(g.positions) : Bound_is_within(g.positions[k].buying, price)}

accepted_selling(g, price) ==
    {k \in 1..Len(g.positions) : Bound_is_within(g.positions[k].selling, price)}

\* Some price lies strictly between the ends of a and strictly between the
\* ends of b.
overlap(a, b) ==
    dec_lt(IF dec_le(a[1], b[1]) THEN b[1] ELSE a[1],
           IF dec_le(a[2], b[2]) THEN a[2] ELSE b[2])

\* C34: for every grid produced by the split with high > low no price is
\* accepted by the buying bands of two different positions, none by the
\* selling bands of two different positions, and none by the buying band of
\* one position and the selling band of another, so
\* find_buying_bound_position and find_selling_bound_position each have at
\* most one candidate position for any price.
C34_BandsDisjoint ==
    grid.bound[1] # grid.bound[2] =>
        /\ \A j \in 1..Len(grid.positions), k \in 1..Len(grid.positions) :
            j # k =>
                /\ ~overlap(grid.positions[j].buying, grid.positions[k].buying)
                /\ ~overlap(grid.positions[j].selling, grid.positions[k].selling)
                /\ ~overlap(grid.positions[j].buying, grid.positions[k].selling)
        /\ call.op \in {"predictive_buying", "predictive_selling",
                        "is_reach_stop_loss", "update_position"} =>
            LET price == call.price
            IN  /\ Cardinality(accepted_buying(grid, price)) <= 1
                /\ Cardinality(accepted_selling(grid, price)) <= 1
                /\ \A j \in accepted_buying(grid, price),
                      k \in accepted_selling(grid, price) : j = k
                /\ find_buying_bound_position(grid, price) # None =>
                    accepted_buying(grid, price) =
                        {find_buying_bound_position(grid, price)[1]}
                /\ find_selling_bound_position(grid, price) # None =>
                    accepted_selling(grid, price) =
                        {find_selling_bound_position(grid, price)[1]}

\* A grid of three positions asked for a buy at the middle of the second
\* buying band, which ends where the first selling band starts: only the
\* second position accepts the price.
C34_Witness ==
    /\ Len(grid.positions) = 3
    /\ call.op = "predictive_buying"
    /\ call.price = midpoint(grid.positions[2].buying)
    /\ call.ret # None
    /\ grid.positions[2].buying[2] = grid.positions[1].selling[1]
    /\ accepted_buying(grid, call.price) = {2}
    /\ accepted_selling(grid, call.price) = {}
    /\ accepted_buying(grid, grid.positions[2].buying[2]) = {}
    /\ accepted_selling(grid, grid.positions[2].buying[2]) = {}

\* The Grid of test_predictive_lowest_profit_price and
\* test_predictive_highest_profit_price.
test_grid == Grid_new(dec(50, 0), <<dec(3075, 2), dec(17535, 2)>>, 6, None)

test_lowest ==
    <<dec(4279572, 5), dec(6690669, 5), dec(6689331, 5), dec(910091, 4),
      dec(909909, 4), dec(11511151, 5), dec(11508849, 5), dec(13921392, 5),
      dec(13918608, 5), dec(16331633, 5)>>

test_highest ==
    <<dec(30753075, 6), dec(78942105, 6), dec(54855485, 6), dec(103039695, 6),
      dec(78957895, 6), dec(127137285, 6), dec(103060305, 6), dec(151234875, 6),
      dec(127162715, 6), dec(175332465, 6)>>

test_lowest_returned == predictive_lowest_profit_price(test_grid)

test_highest_returned == predictive_highest_profit_price(test_grid)

\* The band is wider than 0.01% of its high end plus one unit of the eighth
\* decimal place, and starts at 0.0001 or above.
wide(bound) ==
    /\ dec_le(dec(1, 4), bound[1])
    /\ dec_gt(dec_sub(bound[2], bound[1]),
              dec_add(dec_mul(bound[2], dec(1, 4)), dec(1, 8)))

\* The prices are 2 * (copies - 1), for each position in order the buying
\* price then the selling price, each the named end of the band times the
\* factor, truncated to 8 decimal places.
profit_price_values ==
    /\ call.op = "predictive_lowest_profit_price" =>
        /\ Len(call.ret) = 2 * (copies - 1)
        /\ \A k \in 1..(copies - 1) :
            /\ call.ret[2 * k - 1] =
                trunc_with_scale(dec_mul(grid.positions[k].buying[2], dec(9999, 4)), 8)
            /\ call.ret[2 * k] =
                trunc_with_scale(dec_mul(grid.positions[k].selling[1], dec(10001, 4)), 8)
    /\ call.op = "predictive_highest_profit_price" =>
        /\ Len(call.ret) = 2 * (copies - 1)
        /\ \A k \in 1..(copies - 1) :
            /\ call.ret[2 * k - 1] =
                trunc_with_scale(dec_mul(grid.positions[k].buying[1], dec(10001, 4)), 8)
            /\ call.ret[2 * k] =
                trunc_with_scale(dec_mul(grid.positions[k].selling[2], dec(9999, 4)), 8)
    /\ test_lowest_returned = test_lowest
    /\ test_highest_returned = test_highest

\* C35 as stated: predictive_lowest_profit_price and
\* predictive_highest_profit_price each return exactly 2 * (copies - 1)
\* prices, per position a buy price then a sell price (lowest: buying
\* high * 0.9999 and selling low * 1.0001; highest: buying low * 1.0001 and
\* selling high * 0.9999, each truncated to 8 decimal places), and for every
\* grid the buy price is accepted by that position's buying band and the sell
\* price by its selling band.
C35_ProfitPricesInside ==
    /\ profit_price_values
    /\ call.op \in {"predictive_lowest_profit_price",
                    "predictive_highest_profit_price"} =>
        \A k \in 1..(copies - 1) :
            /\ inside(grid.positions[k].buying, call.ret[2 * k - 1])
            /\ inside(grid.positions[k].selling, call.ret[2 * k])

\* C35: the same number, order and values of the prices; the buy price is
\* accepted by the position's buying band and the sell price by its selling
\* band whenever the band starts at 0.0001 or above and is wider than 0.01% of
\* its high end plus 0.00000001.
C35_ProfitPricesInsideWideBands ==
    /\ profit_price_values
    /\ call.op \in {"predictive_lowest_profit_price",
                    "predictive_highest_profit_price"} =>
        \A k \in 1..(copies - 1) :
            /\ wide(grid.positions[k].buying) =>
                inside(grid.positions[k].buying, call.ret[2 * k - 1])
            /\ wide(grid.positions[k].selling) =>
                inside(grid.positions[k].selling, call.ret[2 * k])

\* The lowest profit prices of the 4-copy grid over (50, 90): the first is
\* 55 * 0.9999 = 54.9945, inside the buying band (50, 55).
C35_Witness ==
    /\ call.op = "predictive_lowest_profit_price"
    /\ copies = 4
    /\ grid.bound = <<dec(50, 0), dec(90, 0)>>
    /\ Len(call.ret) = 6
    /\ call.ret[1] = dec(549945, 4)
    /\ wide(grid.positions[1].buying)
    /\ inside(grid.positions[1].buying, call.ret[1])

\* C36: for every bound with high > low and every copies >= 2, every end of
\* every buying and selling band lies in [low(bound), high(bound)]; the lowest
\* buying band starts exactly at low(bound) and the highest selling band ends
\* at or below high(bound).
C36_BandsInsideBound ==
    (copies >= 2 /\ grid.bound[1] # grid.bound[2]) =>
        LET lo == ends_low(grid.bound)
            hi == ends_high(grid.bound)
        IN  /\ \A k \in 1..Len(grid.positions) :
                \A e \in {grid.positions[k].buying[1], grid.positions[k].buying[2],
                          grid.positions[k].selling[1], grid.positions[k].selling[2]} :
                    dec_le(lo, e) /\ dec_le(e, hi)
            /\ grid.positions[1].buying[1] = lo
            /\ dec_le(grid.positions[Len(grid.positions)].selling[2], hi)

\* The 3-copy grid over (3, 1): the interval 0.666666 is a truncation and the
\* last selling band ends at 2.999998, below the high end.
C36_Witness ==
    /\ copies = 3
    /\ grid.bound = <<dec(3, 0), dec(1, 0)>>
    /\ grid.positions[1].buying[1] = dec(1, 0)
    /\ grid.positions[2].selling[2] = dec(2999998, 6)

\* C37: for a Grid with a stop_loss fraction s in [0, 1) and a positive low
\* bound no price has is_reach_stop_loss true and predictive_buying Some.
C37_StopLossExcludesBuying ==
    (/\ grid.options.stop_loss # None
     /\ dec_le(ZERO, grid.options.stop_loss[1])
     /\ dec_lt(grid.options.stop_loss[1], ONE)
     /\ dec_lt(ZERO, ends_low(grid.bound))) =>
        /\ (call.op = "is_reach_stop_loss" /\ call.ret = TRUE) =>
                Grid_predictive_buying(grid, call.price) = None
        /\ (call.op = "predictive_buying" /\ call.ret # None) =>
                /\ ~is_reach_stop_loss(grid, call.price)
                /\ ~reached(grid, call.price)

\* With s = 0 the threshold is the low end of the bound, where the first
\* buying band starts: the stop-loss is reached there and no buy is suggested
\* although the first position is flat.
C37_Witness ==
    /\ grid.options.stop_loss = Some(ZERO)
    /\ copies >= 2
    /\ call.op = "predictive_buying"
    /\ call.price = ends_low(grid.bound)
    /\ call.price = grid.positions[1].buying[1]
    /\ dec_lt(grid.positions[1].buying[1], grid.positions[1].buying[2])
    /\ grid.positions[1].position = None
    /\ reached(grid, call.price)
    /\ call.ret = None

\* update_position writes the one position whose buying band accepts the
\* price of the order and nothing else.
update_targets_one ==
    (call'.op = "update_position" /\ accepted_buying(grid, call'.price) # {}) =>
        \E k \in accepted_buying(grid, call'.price) :
            /\ accepted_buying(grid, call'.price) = {k}
            /\ call'.ret = "Ok"
            /\ grid'.positions[k].position =
                (IF call'.side[1] = "Increase" THEN Stock(call'.side[2]) ELSE None)
            /\ grid'.positions[k].buying = grid.positions[k].buying
            /\ grid'.positions[k].selling = grid.positions[k].selling
            /\ Len(grid'.positions) = Len(grid.positions)
            /\ \A j \in 1..Len(grid.positions) :
                j # k => grid'.positions[j] = grid.positions[j]
            /\ grid'.bound = grid.bound
            /\ grid'.investment = grid.investment
            /\ grid'.options = grid.options

\* Every order predictive_selling returns is the order held by the one
\* position whose buying band accepts its price, and Decrease of it makes that
\* position flat.
returned_orders_targeted ==
    (call.op = "predictive_selling" /\ call.ret # None) =>
        \A x \in 1..Len(call.ret[1]) :
            \E k \in 1..Len(grid.positions) :
                /\ accepted_buying(grid, call.ret[1][x].price) = {k}
                /\ grid.positions[k].position = Stock(call.ret[1][x])
                /\ Grid_update_position(grid, Decrease(call.ret[1][x])) =
                        Ok([grid EXCEPT !.positions[k].position = None])

Resting == [pc |-> "idle", orders |-> <<>>]

DriverPrices == {dec(100, 0), dec(102, 0), dec(96, 0)}

InitDrivers ==
    /\ percentage \in {Percentage_new(dec(100, 0), target, stop, None) :
                         target \in PercentageTargets, stop \in PercentageStops}
    /\ tasks = [t \in Tasks |-> Resting]
    /\ call = NoCall
    /\ positions = <<>>
    /\ tick = NoTick
    /\ bought = <<>>
    /\ twin = <<>>
    /\ twin_tick = NoTick
    /\ locks = <<>>
    /\ no_exchange
    /\ grid = None
    /\ copies = 0
    /\ treasurer = None
    /\ ticks = <<>>

drivers_only == <<positions, tick, bought, twin, twin_tick, locks, grid, copies,
                  treasurer, ticks, exchange>>

\* predictive_buying; on Some(amount) the driver buys at the price of the
\* signal and holds the order to report.
DriverPredictiveBuying(t, price) ==
    /\ tasks[t].pc = "idle"
    /\ LET r == Percentage_predictive_buying(percentage, price)
       IN  /\ call' = [op |-> "predictive_buying", task |-> t, ret |-> r]
           /\ tasks' = [tasks EXCEPT ![t] =
                IF r = None THEN Resting
                ELSE [pc |-> "bought",
                      orders |-> <<Order_new(price.value, r[1], ONE, price.timestamp)>>]]
    /\ UNCHANGED <<percentage, drivers_only>>

\* update_position(Increase(order)) for the order bought.
DriverIncrease(t) ==
    /\ tasks[t].pc = "bought"
    /\ percentage' = Percentage_update_position(percentage, Increase(tasks[t].orders[1]))
    /\ call' = [op |-> "update_position", task |-> t,
                side |-> Increase(tasks[t].orders[1])]
    /\ tasks' = [tasks EXCEPT ![t] = Resting]
    /\ UNCHANGED drivers_only

\* predictive_selling; the driver sells the orders returned and holds them to
\* report.
DriverPredictiveSelling(t, price) ==
    /\ tasks[t].pc = "idle"
    /\ LET r == Percentage_predictive_selling(percentage, price)
       IN  /\ call' = [op |-> "predictive_selling", task |-> t, ret |-> r]
           /\ tasks' = [tasks EXCEPT ![t] =
                IF r = None \/ r = Some(<<>>) THEN Resting
                ELSE [pc |-> "sold", orders |-> r[1]]]
    /\ UNCHANGED <<percentage, drivers_only>>

\* update_position(Decrease(order)) for the next order sold.
DriverDecrease(t) ==
    /\ tasks[t].pc = "sold"
    /\ percentage' = Percentage_update_position(percentage, Decrease(tasks[t].orders[1]))
    /\ call' = [op |-> "update_position", task |-> t,
                side |-> Decrease(tasks[t].orders[1])]
    /\ tasks' = [tasks EXCEPT ![t] =
            IF Len(tasks[t].orders) = 1 THEN Resting
            ELSE [pc |-> "sold", orders |-> Tail(tasks[t].orders)]]
    /\ UNCHANGED drivers_only

NextDrivers ==
    \E t \in Tasks :
        \/ \E price \in DriverPrices :
            \/ DriverPredictiveBuying(t, PriceSignal_new(price, 0))
            \/ DriverPredictiveSelling(t, PriceSignal_new(price, 0))
        \/ DriverIncrease(t)
        \/ DriverDecrease(t)

SpecDrivers == InitDrivers /\ [][NextDrivers]_vars

\* C40: when Increase(order) is applied only after predictive_buying returned
\* Some and Decrease(order) only for an order returned by predictive_selling,
\* the stored list never holds more than one order, also when two drivers run
\* concurrently and interleave between the prediction and the update; a
\* Decrease for an order not equal to a stored one leaves the list and the
\* completed flag unchanged.
C40_AtMostOneOrder ==
    /\ [](Len(percentage.positions) <= 1)
    /\ [][(/\ call'.op = "update_position"
           /\ call'.side[1] = "Decrease"
           /\ ~stored(percentage, call'.side[2])) =>
                percentage' = percentage]_<<percentage, tasks>>

====
